---- MODULE Spec2Model ----
(***************************************************************************)
(* Model of mtcvctm: markdown -> format-agnostic credential model ->       *)
(* SD-JWT VC (vctm), mso_mdoc (mddl) and W3C VC (w3c) metadata documents.  *)
(*                                                                         *)
(* Go strings are TLA+ strings; a Go map is a function whose DOMAIN is the *)
(* set of keys present; a Go slice is a sequence; a nil error is "".       *)
(***************************************************************************)
EXTENDS Integers, Sequences, FiniteSets, TLC

(***************************************************************************)
(* Bounds of the model.                                                    *)
(***************************************************************************)
MaxFormats == 2     \* longest format list handed to Parser.Generate
MaxClaims == 2      \* longest claim list of a directly constructed model
MaxFiles == 3       \* number of markdown files in a batch run
MaxItems == 2       \* longest list of a document handed to ParseContent
MaxImages == 2      \* most images of a document handed to buildRendering
MaxNodes == 3       \* most blocks of a document the walk is followed over
MaxThreads == 3     \* most goroutines calling the registry at once

(***************************************************************************)
(* The Go standard library functions the code uses (package strings,       *)
(* package path/filepath), computed on strings as the library does.        *)
(***************************************************************************)
HasPrefix(s, p) == Len(s) >= Len(p) /\ SubSeq(s, 1, Len(p)) = p

HasSuffix(s, p) == Len(s) >= Len(p) /\ SubSeq(s, Len(s) - Len(p) + 1, Len(s)) = p

TrimPrefix(s, p) == IF HasPrefix(s, p) THEN SubSeq(s, Len(p) + 1, Len(s)) ELSE s

TrimSuffix(s, p) == IF HasSuffix(s, p) THEN SubSeq(s, 1, Len(s) - Len(p)) ELSE s

\* strings.Index: position (1-based) of the first occurrence of sep, 0 if none
Index(s, sep) ==
    LET I == {i \in 1..(Len(s) - Len(sep) + 1) : SubSeq(s, i, i + Len(sep) - 1) = sep}
    IN  IF I = {} THEN 0 ELSE CHOOSE i \in I : \A j \in I : i <= j

\* strings.LastIndex: position of the last occurrence of sep, 0 if none
LastIndex(s, sep) ==
    LET I == {i \in 1..(Len(s) - Len(sep) + 1) : SubSeq(s, i, i + Len(sep) - 1) = sep}
    IN  IF I = {} THEN 0 ELSE CHOOSE i \in I : \A j \in I : i >= j

\* strings.Split with a non-empty separator: Split("", ".") is <<"">>
RECURSIVE Split(_, _)
Split(s, sep) ==
    LET i == Index(s, sep)
    IN  IF i = 0 THEN <<s>>
        ELSE <<SubSeq(s, 1, i - 1)>> \o Split(SubSeq(s, i + Len(sep), Len(s)), sep)

\* strings.Join
RECURSIVE Join(_, _)
Join(parts, sep) ==
    IF Len(parts) = 0 THEN ""
    ELSE IF Len(parts) = 1 THEN parts[1]
    ELSE parts[1] \o sep \o Join(Tail(parts), sep)

\* strings.ReplaceAll with a non-empty old
RECURSIVE ReplaceAll(_, _, _)
ReplaceAll(s, old, new) ==
    LET i == Index(s, old)
    IN  IF i = 0 THEN s
        ELSE SubSeq(s, 1, i - 1) \o new
             \o ReplaceAll(SubSeq(s, i + Len(old), Len(s)), old, new)

\* filepath.Base of a slash-separated path without trailing slash
Base(path) ==
    IF path = "" THEN "."
    ELSE SubSeq(path, LastIndex(path, "/") + 1, Len(path))

\* filepath.Ext: the suffix beginning at the final dot of the last element
Ext(path) ==
    LET b == SubSeq(path, LastIndex(path, "/") + 1, Len(path))
        i == LastIndex(b, ".")
    IN  IF i = 0 THEN "" ELSE SubSeq(b, i, Len(b))

\* strings.Trim(s, cutset) for a one-character cutset
RECURSIVE Trim(_, _)
Trim(s, c) ==
    IF HasPrefix(s, c) /\ Len(s) > 0 THEN Trim(SubSeq(s, 2, Len(s)), c)
    ELSE IF HasSuffix(s, c) /\ Len(s) > 0 THEN Trim(SubSeq(s, 1, Len(s) - 1), c)
    ELSE s

UpperLetters == "ABCDEFGHIJKLMNOPQRSTUVWXYZ"
LowerLetters == "abcdefghijklmnopqrstuvwxyz"
Digits == "0123456789"

LowerChar(c) ==
    LET i == Index(UpperLetters, c) IN IF i = 0 THEN c ELSE SubSeq(LowerLetters, i, i)

UpperChar(c) ==
    LET i == Index(LowerLetters, c) IN IF i = 0 THEN c ELSE SubSeq(UpperLetters, i, i)

\* strings.ToLower on ASCII text
RECURSIVE ToLower(_)
ToLower(s) ==
    IF s = "" THEN "" ELSE LowerChar(SubSeq(s, 1, 1)) \o ToLower(SubSeq(s, 2, Len(s)))

\* the word characters of strings.Title: letters, digits and underscore
IsWordChar(c) ==
    Index(UpperLetters, c) > 0 \/ Index(LowerLetters, c) > 0
        \/ Index(Digits, c) > 0 \/ c = "_"

\* strings.Title: the first letter of every word is upper-cased
RECURSIVE TitleFrom(_, _)
TitleFrom(s, prevIsWord) ==
    IF s = "" THEN ""
    ELSE LET c == SubSeq(s, 1, 1)
         IN  (IF prevIsWord THEN c ELSE UpperChar(c))
             \o TitleFrom(SubSeq(s, 2, Len(s)), IsWordChar(c))

Title(s) == TitleFrom(s, FALSE)

\* the white space of strings.TrimSpace and of the regexp class \s
IsSpace(c) == c \in {" ", "\t", "\n", "\r"}

\* strings.TrimSpace
RECURSIVE TrimSpace(_)
TrimSpace(s) ==
    IF s = "" THEN ""
    ELSE IF IsSpace(SubSeq(s, 1, 1)) THEN TrimSpace(SubSeq(s, 2, Len(s)))
    ELSE IF IsSpace(SubSeq(s, Len(s), Len(s))) THEN TrimSpace(SubSeq(s, 1, Len(s) - 1))
    ELSE s

\* byte order of the characters format names are written with
ByteOrder == Digits \o UpperLetters \o "_" \o LowerLetters

\* a < b as Go compares strings: by the first byte that differs, a proper
\* prefix being smaller
RECURSIVE StringLess(_, _)
StringLess(a, b) ==
    IF b = "" THEN FALSE
    ELSE IF a = "" THEN TRUE
    ELSE LET x == Index(ByteOrder, SubSeq(a, 1, 1))
             y == Index(ByteOrder, SubSeq(b, 1, 1))
         IN  IF x = y THEN StringLess(SubSeq(a, 2, Len(a)), SubSeq(b, 2, Len(b)))
             ELSE x < y

(***************************************************************************)
(* Values of Go's interface{} as YAML decoding produces them, tagged with  *)
(* their dynamic type; v.(string) succeeds exactly on the tag "string".    *)
(***************************************************************************)
YStr(s) == [t |-> "string", s |-> s]
YInt(i) == [t |-> "int", i |-> i]
YList(l) == [t |-> "list", l |-> l]
YMap(m) == [t |-> "map", m |-> m]

EmptyMap == <<>>       \* a map without keys (also the nil map: both read alike)
Has(m, k) == k \in DOMAIN m

\* m[k] = v on a Go map
Put(m, k, v) == [x \in (DOMAIN m) \cup {k} |-> IF x = k THEN v ELSE m[x]]

\* the sequences that enumerate a finite set once each: the orders in which
\* a Go range statement may visit the keys of a map
Perms(S) ==
    {f \in [1..Cardinality(S) -> S] : \A i, j \in 1..Cardinality(S) : f[i] = f[j] => i = j}

\* sort.Strings on the elements of a set
SortStrings(S) ==
    CHOOSE f \in Perms(S) : \A i, j \in 1..Cardinality(S) : i < j => StringLess(f[i], f[j])

(***************************************************************************)
(* pkg/formats: the format-agnostic model.  A ParsedCredential is a record *)
(* of the fields the generators read; a ClaimDefinition likewise.          *)
(***************************************************************************)
\* overrides[key].(string): the value, and whether the assertion succeeded
AsString(overrides, key) ==
    IF Has(overrides, key) /\ overrides[key].t = "string"
    THEN [v |-> overrides[key].s, ok |-> TRUE]
    ELSE [v |-> "", ok |-> FALSE]

(***************************************************************************)
(* Package mddl: the mso_mdoc generator.                                   *)
(***************************************************************************)
\* the in-place reversal loop: for i, j := 0, len-1; i < j; i, j = i+1, j-1
RECURSIVE ReverseParts(_, _, _)
ReverseParts(parts, i, j) ==
    IF i < j
    THEN ReverseParts([parts EXCEPT ![i] = parts[j], ![j] = parts[i]], i + 1, j - 1)
    ELSE parts

\* a slip: the host segments are joined in the order of the URL
MddlReverseDomain_NotReversed(BaseURL, ID) ==
    LET baseURL == TrimSuffix(TrimPrefix(TrimPrefix(BaseURL, "https://"), "http://"), "/")
    IN  baseURL \o ".credentials." \o ID

\* the reverse-domain derivation: https://registry.siros.org + pid ->
\* org.siros.registry.credentials.pid
MddlReverseDomain(BaseURL, ID) ==
    LET baseURL == TrimSuffix(TrimPrefix(TrimPrefix(BaseURL, "https://"), "http://"), "/")
        parts == Split(baseURL, ".")
    IN  Join(ReverseParts(parts, 1, Len(parts)), ".") \o ".credentials." \o ID

\* a slip: the format override is consulted before the explicit doctype
MddlDeriveIdentifier_OverrideFirst(parsed, cfg) ==
    LET o == IF Has(parsed.FormatOverrides, "mddl")
             THEN AsString(parsed.FormatOverrides["mddl"], "doctype")
             ELSE [v |-> "", ok |-> FALSE]
    IN  IF o.ok /\ o.v # "" THEN o.v
        ELSE IF parsed.DocType # "" THEN parsed.DocType
        ELSE IF cfg.BaseURL # "" /\ parsed.ID # ""
             THEN MddlReverseDomain(cfg.BaseURL, parsed.ID)
        ELSE ""

MddlDeriveIdentifier(parsed, cfg) ==
    LET o == IF Has(parsed.FormatOverrides, "mddl")
             THEN AsString(parsed.FormatOverrides["mddl"], "doctype")
             ELSE [v |-> "", ok |-> FALSE]
    IN  IF parsed.DocType # "" THEN parsed.DocType
        ELSE IF o.ok /\ o.v # "" THEN o.v
        ELSE IF cfg.BaseURL # "" /\ parsed.ID # ""
             THEN MddlReverseDomain(cfg.BaseURL, parsed.ID)
        ELSE ""

MddlDeriveNamespace(parsed, cfg) ==
    LET o == IF Has(parsed.FormatOverrides, "mddl")
             THEN AsString(parsed.FormatOverrides["mddl"], "namespace")
             ELSE [v |-> "", ok |-> FALSE]
    IN  IF parsed.Namespace # "" THEN parsed.Namespace
        ELSE IF o.ok /\ o.v # "" THEN o.v
        ELSE MddlDeriveIdentifier(parsed, cfg)

mapTypeToCDDL(mdType) ==
    LET t == ToLower(mdType)
    IN  CASE t = "string" -> "tstr"
          [] t = "number" -> "int"
          [] t = "integer" -> "uint"
          [] t \in {"boolean", "bool"} -> "bool"
          [] t = "date" -> "full-date"
          [] t = "datetime" -> "tdate"
          [] t = "image" -> "bstr"
          [] t \in {"object", "array"} -> ""
          [] OTHER -> "tstr"

\* the key under which format `format` emits a claim, as the mddl and w3c
\* generators compute it: claim.FormatMappings first, then the model's
\* ClaimMappings table assigned over it
EmittedClaimName(parsed, claim, format) ==
    LET n1 == IF Has(claim.FormatMappings, format)
              THEN claim.FormatMappings[format] ELSE claim.Name
    IN  IF Has(parsed.ClaimMappings, format)
           /\ Has(parsed.ClaimMappings[format], claim.Name)
        THEN parsed.ClaimMappings[format][claim.Name]
        ELSE n1

\* json of one ClaimMetadata; omitempty drops a false flag and an empty type
MddlClaimMetadata(claim, cfg) ==
    LET displayName == IF claim.DisplayName = "" THEN claim.Name ELSE claim.DisplayName
        vt == mapTypeToCDDL(claim.Type)
        others == SelectSeq(claim.Localizations, LAMBDA e : e.Locale # cfg.Language)
    IN  ("display" :>
           (<< [locale |-> cfg.Language, name |-> displayName] >>
            \o [i \in 1..Len(others) |->
                  [locale |-> others[i].Locale,
                   name |-> IF others[i].Value.Label = ""
                            THEN displayName ELSE others[i].Value.Label]]))
        @@ (IF claim.Mandatory THEN "mandatory" :> TRUE ELSE EmptyMap)
        @@ (IF vt # "" THEN "value_type" :> vt ELSE EmptyMap)

\* the loop over parsed.Claims filling mddl.Claims[namespace]
RECURSIVE MddlNamespaceClaims(_, _, _, _)
MddlNamespaceClaims(parsed, cfg, i, acc) ==
    IF i > Len(parsed.Claims) THEN acc
    ELSE MddlNamespaceClaims(parsed, cfg, i + 1,
             Put(acc, EmittedClaimName(parsed, parsed.Claims[i], "mddl"),
                 MddlClaimMetadata(parsed.Claims[i], cfg)))

\* Generate: [doc, err]; doc is the JSON object that is marshalled, err # ""
\* means (nil, error)
MddlGenerate(parsed, cfg) ==
    LET doctype == MddlDeriveIdentifier(parsed, cfg)
        namespace == MddlDeriveNamespace(parsed, cfg)
    IN  IF doctype = ""
        THEN [doc |-> EmptyMap, err |-> "mddl: doctype is required"]
        ELSE [doc |-> ("format" :> "mso_mdoc") @@ ("doctype" :> doctype)
                      @@ (IF Len(parsed.Claims) > 0
                          THEN "claims" :>
                                 (namespace :> MddlNamespaceClaims(parsed, cfg, 1, EmptyMap))
                          ELSE EmptyMap),
              err |-> ""]

(***************************************************************************)
(* Package vctmfmt: the SD-JWT VC type metadata generator.                 *)
(***************************************************************************)
VctmDeriveIdentifier(parsed, cfg) ==
    IF parsed.VCT # "" THEN parsed.VCT ELSE parsed.ID

\* one entry of the claims array, a map[string]interface{}
VctmClaimEntry(claim) ==
    ("path" :> claim.Path)
    @@ (IF claim.DisplayName # ""
        THEN "display" :> << ("lang" :> "en") @@ ("label" :> claim.DisplayName) >>
        ELSE EmptyMap)
    @@ (IF claim.Description # "" THEN "description" :> claim.Description ELSE EmptyMap)
    @@ (IF claim.SD # "" THEN "sd" :> claim.SD ELSE EmptyMap)
    @@ (IF claim.SvgId # "" THEN "svg_id" :> claim.SvgId ELSE EmptyMap)

VctmClaims(parsed) ==
    [i \in 1..Len(parsed.Claims) |-> VctmClaimEntry(parsed.Claims[i])]

\* the simple rendering: the colours (a model of this development carries no
\* images, logo or SVG template)
VctmSimple(parsed) ==
    (IF parsed.BackgroundColor # ""
     THEN "background_color" :> parsed.BackgroundColor ELSE EmptyMap)
    @@ (IF parsed.TextColor # "" THEN "text_color" :> parsed.TextColor ELSE EmptyMap)

\* Generate never returns an error for the fields modelled here: the vct is
\* written whatever its value; display is the one entry that holds the
\* rendering, when there is one
VctmGenerate(parsed, cfg) ==
    LET vct == IF parsed.VCT = "" THEN parsed.ID ELSE parsed.VCT
    IN  [doc |-> ("vct" :> vct)
                 @@ (IF parsed.Name # "" THEN "name" :> parsed.Name ELSE EmptyMap)
                 @@ (IF parsed.Description # ""
                     THEN "description" :> parsed.Description ELSE EmptyMap)
                 @@ [k \in (DOMAIN parsed.Metadata)
                            \cap {"extends", "extends#integrity",
                                  "schema_uri", "schema_uri#integrity"}
                        |-> parsed.Metadata[k]]
                 @@ (IF Len(parsed.Claims) > 0
                     THEN "claims" :> VctmClaims(parsed) ELSE EmptyMap)
                 @@ (IF VctmSimple(parsed) # EmptyMap
                     THEN "display" :>
                            << "rendering" :> ("simple" :> VctmSimple(parsed)) >>
                     ELSE EmptyMap),
         err |-> ""]

(***************************************************************************)
(* Package w3c: the W3C VC schema generator.                               *)
(***************************************************************************)
Contains(seq, x) == \E i \in 1..Len(seq) : seq[i] = x

\* the strings of an override list, in order: the type switch t.(string)
RECURSIVE StringsOf(_)
StringsOf(l) ==
    IF Len(l) = 0 THEN <<>>
    ELSE (IF l[1].t = "string" THEN <<l[1].s>> ELSE <<>>) \o StringsOf(Tail(l))

\* the last level of deriveTypes: from the name, else from the id
W3cTypesFromName(parsed) ==
    IF parsed.Name # ""
    THEN <<"VerifiableCredential", ReplaceAll(ReplaceAll(parsed.Name, " ", ""), "-", "")>>
    ELSE IF parsed.ID # "" THEN <<"VerifiableCredential", Title(parsed.ID)>>
    ELSE <<"VerifiableCredential">>

W3cDeriveTypes(parsed, cfg) ==
    LET ov == IF Has(parsed.FormatOverrides, "w3c")
                 /\ Has(parsed.FormatOverrides["w3c"], "type")
                 /\ parsed.FormatOverrides["w3c"]["type"].t = "list"
              THEN StringsOf(parsed.FormatOverrides["w3c"]["type"].l)
              ELSE <<>>
    IN  IF Len(parsed.W3CTypes) > 0
        THEN IF Contains(parsed.W3CTypes, "VerifiableCredential") THEN parsed.W3CTypes
             ELSE <<"VerifiableCredential">> \o parsed.W3CTypes
        ELSE IF Len(ov) > 0
        THEN IF Contains(ov, "VerifiableCredential") THEN ov
             ELSE <<"VerifiableCredential">> \o ov
        ELSE W3cTypesFromName(parsed)

W3cDeriveIdentifier(parsed, cfg) ==
    LET types == W3cDeriveTypes(parsed, cfg)
    IN  IF Len(types) > 1 THEN types[Len(types)] ELSE ""

W3cDeriveContext(parsed, cfg) ==
    LET ov == IF Has(parsed.FormatOverrides, "w3c")
                 /\ Has(parsed.FormatOverrides["w3c"], "context")
                 /\ parsed.FormatOverrides["w3c"]["context"].t = "list"
              THEN StringsOf(parsed.FormatOverrides["w3c"]["context"].l)
              ELSE <<>>
    IN  IF Len(parsed.W3CContext) > 0 THEN parsed.W3CContext
        ELSE IF Len(ov) > 0 THEN ov
        ELSE <<"https://www.w3.org/2018/credentials/v1">>
             \o (IF cfg.BaseURL # "" /\ parsed.ID # ""
                 THEN <<TrimSuffix(cfg.BaseURL, "/") \o "/contexts/" \o parsed.ID \o "/v1">>
                 ELSE <<>>)

\* json of the SchemaProperty for a type tag (omitempty fields dropped)
mapTypeToJSONSchema(mdType) ==
    LET t == ToLower(mdType)
    IN  CASE t = "string" -> ("type" :> "string")
          [] t = "number" -> ("type" :> "number")
          [] t = "integer" -> ("type" :> "integer")
          [] t \in {"boolean", "bool"} -> ("type" :> "boolean")
          [] t = "date" -> ("type" :> "string") @@ ("format" :> "date")
          [] t = "datetime" -> ("type" :> "string") @@ ("format" :> "date-time")
          [] t = "image" -> ("type" :> "string") @@ ("contentEncoding" :> "base64")
          [] t = "object" -> ("type" :> "object")
          [] t = "array" -> ("type" :> "array") @@ ("items" :> ("type" :> "string"))
          [] OTHER -> ("type" :> "string")

W3cProperty(claim) ==
    LET title == IF claim.DisplayName = "" THEN claim.Name ELSE claim.DisplayName
    IN  mapTypeToJSONSchema(claim.Type)
        @@ (IF title # "" THEN "title" :> title ELSE EmptyMap)
        @@ (IF claim.Description # "" THEN "description" :> claim.Description ELSE EmptyMap)

\* a slip: every claim is collected into required, mandatory or not
RECURSIVE W3cCredentialSubject_AllRequired(_, _, _)
W3cCredentialSubject_AllRequired(parsed, i, subj) ==
    IF i > Len(parsed.Claims) THEN subj
    ELSE LET claim == parsed.Claims[i]
             claimName == EmittedClaimName(parsed, claim, "w3c")
         IN  W3cCredentialSubject_AllRequired(parsed, i + 1,
                 [Properties |-> Put(subj.Properties, claimName, W3cProperty(claim)),
                  Required |-> Append(subj.Required, claimName)])

\* the loop over parsed.Claims: credSubject.Properties and credSubject.Required
RECURSIVE W3cCredentialSubject(_, _, _)
W3cCredentialSubject(parsed, i, subj) ==
    IF i > Len(parsed.Claims) THEN subj
    ELSE LET claim == parsed.Claims[i]
             claimName == EmittedClaimName(parsed, claim, "w3c")
         IN  W3cCredentialSubject(parsed, i + 1,
                 [Properties |-> Put(subj.Properties, claimName, W3cProperty(claim)),
                  Required |-> IF claim.Mandatory
                               THEN Append(subj.Required, claimName)
                               ELSE subj.Required])

W3cGenerate(parsed, cfg) ==
    LET subj == W3cCredentialSubject(parsed, 1, [Properties |-> EmptyMap, Required |-> <<>>])
        credSubject == ("type" :> "object")
                       @@ (IF DOMAIN subj.Properties # {}
                           THEN "properties" :> subj.Properties ELSE EmptyMap)
                       @@ (IF Len(subj.Required) > 0
                           THEN "required" :> subj.Required ELSE EmptyMap)
    IN  [doc |-> ("type" :> W3cDeriveTypes(parsed, cfg))
                 @@ ("@context" :> W3cDeriveContext(parsed, cfg))
                 @@ (IF parsed.Name # "" THEN "name" :> parsed.Name ELSE EmptyMap)
                 @@ (IF parsed.Description # ""
                     THEN "description" :> parsed.Description ELSE EmptyMap)
                 @@ (IF parsed.BackgroundColor # "" \/ parsed.TextColor # ""
                     THEN "display" :>
                            ((IF parsed.BackgroundColor # ""
                              THEN "backgroundColor" :> parsed.BackgroundColor
                              ELSE EmptyMap)
                             @@ (IF parsed.TextColor # ""
                                 THEN "textColor" :> parsed.TextColor ELSE EmptyMap))
                     ELSE EmptyMap)
                 @@ (IF Len(parsed.Claims) > 0
                     THEN "credentialSchema" :>
                            (("type" :> "JsonSchema")
                             @@ ("properties" :> ("credentialSubject" :> credSubject)))
                     ELSE EmptyMap),
         err |-> ""]

(***************************************************************************)
(* Package parser: front matter, the model builder and Parser.Generate.    *)
(***************************************************************************)
\* the generator registered under a name, applied
GeneratorGenerate(name, cred, config) ==
    CASE name = "vctm" -> VctmGenerate(cred, config)
      [] name = "mddl" -> MddlGenerate(cred, config)
      [] name = "w3c" -> W3cGenerate(cred, config)

GeneratorDeriveIdentifier(name, cred, config) ==
    CASE name = "vctm" -> VctmDeriveIdentifier(cred, config)
      [] name = "mddl" -> MddlDeriveIdentifier(cred, config)
      [] name = "w3c" -> W3cDeriveIdentifier(cred, config)

\* the loop of Parser.Generate from position i with the results so far
RECURSIVE GenerateFrom(_, _, _, _, _, _)
GenerateFrom(registered, cred, config, names, i, results) ==
    IF i > Len(names) THEN [results |-> results, err |-> ""]
    ELSE IF names[i] \notin registered
    THEN GenerateFrom(registered, cred, config, names, i + 1, results)
    ELSE LET out == GeneratorGenerate(names[i], cred, config)
         IN  IF out.err # "" THEN [results |-> EmptyMap, err |-> out.err]
             ELSE GenerateFrom(registered, cred, config, names, i + 1,
                               Put(results, names[i], out.doc))

\* Parser.Generate: (results, nil) or (nil, err)
ParserGenerate(registered, cred, config, names) ==
    GenerateFrom(registered, cred, config, names, 1, EmptyMap)

(***************************************************************************)
(* pkg/formats: the registry.  A registry is the set of the names of its   *)
(* generators; resolving a format string gives (names, nil) or (nil, err). *)
(***************************************************************************)
\* Registry.List: the registered names, sorted
RegistryList(registered) == SortStrings(registered)

\* a slip: an unregistered name is passed over instead of being reported
RECURSIVE ParseFormatsFrom_KeepUnknown(_, _, _, _)
ParseFormatsFrom_KeepUnknown(registered, parts, i, formats) ==
    IF i > Len(parts)
    THEN IF Len(formats) = 0
         THEN [names |-> <<>>, err |-> "no valid formats specified"]
         ELSE [names |-> formats, err |-> ""]
    ELSE LET name == TrimSpace(parts[i])
         IN  IF name = ""
             THEN ParseFormatsFrom_KeepUnknown(registered, parts, i + 1, formats)
             ELSE IF name \notin registered
             THEN ParseFormatsFrom_KeepUnknown(registered, parts, i + 1, formats)
             ELSE ParseFormatsFrom_KeepUnknown(registered, parts, i + 1,
                                               Append(formats, name))

\* the loop of ParseFormats over the comma-separated parts
RECURSIVE ParseFormatsFrom(_, _, _, _)
ParseFormatsFrom(registered, parts, i, formats) ==
    IF i > Len(parts)
    THEN IF Len(formats) = 0
         THEN [names |-> <<>>, err |-> "no valid formats specified"]
         ELSE [names |-> formats, err |-> ""]
    ELSE LET name == TrimSpace(parts[i])
         IN  IF name = ""
             THEN ParseFormatsFrom(registered, parts, i + 1, formats)
             ELSE IF name \notin registered
             THEN [names |-> <<>>,
                   err |-> "unknown format: " \o name \o " (available: "
                             \o Join(RegistryList(registered), ", ") \o ")"]
             ELSE ParseFormatsFrom(registered, parts, i + 1, Append(formats, name))

\* Registry.ParseFormats
ParseFormats(registered, formatStr) ==
    LET s == TrimSpace(formatStr)
    IN  IF s = "" \/ s = "all"
        THEN [names |-> RegistryList(registered), err |-> ""]
        ELSE ParseFormatsFrom(registered, Split(s, ","), 1, <<>>)

(***************************************************************************)
(* Package parser: the claim and locale grammars.  The regular expressions *)
(* are matched as Go's regexp matches them (leftmost, greedy): every part  *)
(* after the name is optional and the tail takes the rest of the line, so  *)
(* an optional group is taken exactly when it matches where it is tried.   *)
(***************************************************************************)
Char(s, i) == SubSeq(s, i, i)

\* the backquote that delimits a claim name; a string of this language cannot
\* hold that character, the apostrophe stands for it in every text below
Backquote == "'"

\* position of the first c at or after i, 0 if none
IndexFrom(s, c, i) ==
    LET I == {j \in i..Len(s) : Char(s, j) = c}
    IN  IF I = {} THEN 0 ELSE CHOOSE j \in I : \A k \in I : j <= k

\* \s* from position i: the position after the white space
SkipSpace(s, i) ==
    LET J == {j \in i..Len(s) : ~IsSpace(Char(s, j))}
    IN  IF J = {} THEN Len(s) + 1 ELSE CHOOSE j \in J : \A k \in J : j <= k

\* a group open ([^close]+) close tried at position i: whether it matches,
\* its text and the position after it
GroupAt(s, i, open, close) ==
    LET q == IF i <= Len(s) /\ Char(s, i) = open THEN IndexFrom(s, close, i + 1) ELSE 0
    IN  IF q > i + 1
        THEN [ok |-> TRUE, text |-> SubSeq(s, i + 1, q - 1), next |-> q + 1]
        ELSE [ok |-> FALSE, text |-> "", next |-> i]

\* claimPattern.FindStringSubmatch: ok and the four submatches
ClaimPatternMatch(text) ==
    LET name == GroupAt(text, 1, Backquote, Backquote)
        p1 == SkipSpace(text, name.next)
        display == GroupAt(text, p1, "\"", "\"")
        p2 == SkipSpace(text, display.next)
        type == GroupAt(text, p2, "(", ")")
        p3 == IF type.next <= Len(text) /\ Char(text, type.next) = ":"
              THEN type.next + 1 ELSE type.next
        p4 == SkipSpace(text, p3)
        rest == SubSeq(text, p4, Len(text))
    IN  IF name.ok /\ Index(rest, "\n") = 0
        THEN [ok |-> TRUE, m1 |-> name.text, m2 |-> display.text, m3 |-> type.text,
              m4 |-> rest]
        ELSE [ok |-> FALSE, m1 |-> "", m2 |-> "", m3 |-> "", m4 |-> ""]

\* bracketPattern.FindAllStringSubmatch from position i: the texts between
\* the brackets of every group [ ... ], left to right
RECURSIVE BracketMatches(_, _)
BracketMatches(desc, i) ==
    LET o == IndexFrom(desc, "[", i)
        g == GroupAt(desc, o, "[", "]")
    IN  IF o = 0 THEN <<>>
        ELSE IF g.ok THEN <<g.text>> \o BracketMatches(desc, g.next)
        ELSE BracketMatches(desc, o + 1)

\* bracketPattern.ReplaceAllString(desc, "") from position i
RECURSIVE StripBrackets(_, _)
StripBrackets(desc, i) ==
    LET o == IndexFrom(desc, "[", i)
        g == GroupAt(desc, o, "[", "]")
    IN  IF o = 0 THEN SubSeq(desc, i, Len(desc))
        ELSE IF g.ok THEN SubSeq(desc, i, o - 1) \o StripBrackets(desc, g.next)
        ELSE SubSeq(desc, i, o) \o StripBrackets(desc, o + 1)

\* (?i)\(mandatory\) replaced by nothing
RECURSIVE StripParenMandatory(_)
StripParenMandatory(desc) ==
    LET i == Index(ToLower(desc), "(mandatory)")
    IN  IF i = 0 THEN desc
        ELSE SubSeq(desc, 1, i - 1)
             \o StripParenMandatory(SubSeq(desc, i + Len("(mandatory)"), Len(desc)))

\* a slip: every flag makes the claim mandatory
ApplyFlag_AlwaysMandatory(claim, rawFlag) ==
    [claim EXCEPT !.Mandatory = TRUE]

\* the body of the loop over the flags of a bracket group
ApplyFlag(claim, rawFlag) ==
    LET flag == TrimSpace(rawFlag)
        flagLower == ToLower(flag)
    IN  IF flagLower = "mandatory" THEN [claim EXCEPT !.Mandatory = TRUE]
        ELSE IF HasPrefix(flagLower, "sd=")
        THEN [claim EXCEPT !.SD = TrimPrefix(flagLower, "sd=")]
        ELSE IF HasPrefix(flagLower, "svg_id=")
        THEN [claim EXCEPT !.SvgId = TrimPrefix(flag, "svg_id=")]
        ELSE claim

\* the loops over the bracket groups and over the flags of each
RECURSIVE ApplyFlags(_, _)
ApplyFlags(claim, flags) ==
    IF Len(flags) = 0 THEN claim
    ELSE ApplyFlags(ApplyFlag(claim, Head(flags)), Tail(flags))

RECURSIVE ApplyGroups(_, _)
ApplyGroups(claim, groups) ==
    IF Len(groups) = 0 THEN claim
    ELSE ApplyGroups(ApplyFlags(claim, Split(Head(groups), ",")), Tail(groups))

\* parseClaimFromListItem after the match: the claim of the submatches, the
\* flags of the bracket groups, the description without them
ClaimOfMatches(matches) ==
    LET claim0 == [Name |-> matches.m1, DisplayName |-> matches.m2,
                   Type |-> IF matches.m3 = "" THEN "string" ELSE matches.m3,
                   Description |-> matches.m4, Mandatory |-> FALSE, SD |-> "",
                   SvgId |-> "", Localizations |-> EmptyMap]
    IN  ApplyGroups(claim0, BracketMatches(matches.m4, 1))

\* the description: the bracket groups and (mandatory) are taken out of it
DescriptionOf(desc1) ==
    TrimSpace(IF Index(ToLower(desc1), "(mandatory)") > 0
              THEN StripParenMandatory(desc1) ELSE desc1)

FinishClaim(claim1, desc1) ==
    [claim1 EXCEPT !.Mandatory = claim1.Mandatory
                                   \/ Index(ToLower(desc1), "(mandatory)") > 0,
                   !.Description = DescriptionOf(desc1)]

ClaimOrNil(matches) ==
    IF ~matches.ok THEN [ok |-> FALSE, claim |-> ClaimOfMatches(matches)]
    ELSE [ok |-> TRUE,
          claim |-> FinishClaim(ClaimOfMatches(matches), StripBrackets(matches.m4, 1))]

\* parseClaimFromListItem: ok = FALSE is the nil result
parseClaimFromListItem(text) == ClaimOrNil(ClaimPatternMatch(text))

\* [a-zA-Z]{lo,hi} on the whole of s
IsLetters(s, lo, hi) ==
    /\ Len(s) >= lo /\ Len(s) <= hi
    /\ \A i \in 1..Len(s) :
         Index(UpperLetters, Char(s, i)) > 0 \/ Index(LowerLetters, Char(s, i)) > 0

\* ([a-zA-Z]{2,3}(?:-[a-zA-Z]{2,4})?) on the whole of s
IsLocaleCode(s) ==
    LET d == Index(s, "-")
    IN  IF d = 0 THEN IsLetters(s, 2, 3)
        ELSE IsLetters(SubSeq(s, 1, d - 1), 2, 3) /\ IsLetters(SubSeq(s, d + 1, Len(s)), 2, 4)

\* localePattern.FindStringSubmatch: the code is what precedes the first
\* colon; a quoted label and a dash are taken when they are there
LocalePatternMatch(text) ==
    LET c == Index(text, ":")
        p1 == SkipSpace(text, c + 1)
        label == GroupAt(text, p1, "\"", "\"")
        p2 == SkipSpace(text, label.next)
        p3 == IF p2 <= Len(text) /\ Char(text, p2) = "-"
              THEN SkipSpace(text, p2 + 1) ELSE p2
        rest == SubSeq(text, p3, Len(text))
    IN  IF c > 0 /\ IsLocaleCode(SubSeq(text, 1, c - 1)) /\ Index(rest, "\n") = 0
        THEN [ok |-> TRUE, m1 |-> SubSeq(text, 1, c - 1), m2 |-> label.text, m3 |-> rest]
        ELSE [ok |-> FALSE, m1 |-> "", m2 |-> "", m3 |-> ""]

\* parseLocalizationFromListItem
parseLocalizationFromListItem(text) ==
    LET matches == LocalePatternMatch(text)
    IN  [ok |-> matches.ok, locale |-> matches.m1,
         loc |-> [Label |-> matches.m2, Description |-> TrimSpace(matches.m3)]]

\* a slip: a nested item that is no locale line is kept under its own text
AddLocalization_Unchecked(claim, locText) ==
    LET r == parseLocalizationFromListItem(locText)
    IN  [claim EXCEPT !.Localizations =
             Put(claim.Localizations, IF r.ok THEN r.locale ELSE locText, r.loc)]

\* one nested list item: the localization is stored when the line matches
AddLocalization(claim, locText) ==
    LET r == parseLocalizationFromListItem(locText)
    IN  IF r.ok
        THEN [claim EXCEPT !.Localizations = Put(claim.Localizations, r.locale, r.loc)]
        ELSE claim

\* the loop over the items of one nested list
RECURSIVE AddLocalizations(_, _)
AddLocalizations(claim, nestedItems) ==
    IF Len(nestedItems) = 0 THEN claim
    ELSE AddLocalizations(AddLocalization(claim, Head(nestedItems)), Tail(nestedItems))

\* the loop over the nested lists of one list item
RECURSIVE AddNestedLists(_, _)
AddNestedLists(claim, nestedLists) ==
    IF Len(nestedLists) = 0 THEN claim
    ELSE AddNestedLists(AddLocalizations(claim, Head(nestedLists)), Tail(nestedLists))

\* the body of the loop over the items: an item that is no claim is passed
\* over, a claim is stored under its name with the localizations of its
\* nested lists
StoreClaim(claims, r, nestedLists) ==
    IF ~r.ok THEN claims
    ELSE Put(claims, r.claim.Name, AddNestedLists(r.claim, nestedLists))

\* parseClaimsList from item i on: a list is the sequence of its items, an
\* item its first text block (the empty text when it has none) and its
\* nested lists; claims is parsed.Claims
RECURSIVE parseClaimsList(_, _, _)
parseClaimsList(list, i, claims) ==
    IF i > Len(list) THEN claims
    ELSE parseClaimsList(list, i + 1,
             StoreClaim(claims, parseClaimFromListItem(list[i].text), list[i].nested))

\* the lists the walk meets, in document order
RECURSIVE ParseLists(_, _, _)
ParseLists(lists, i, claims) ==
    IF i > Len(lists) THEN claims
    ELSE ParseLists(lists, i + 1, parseClaimsList(lists[i], 1, claims))

(***************************************************************************)
(* Package parser: front matter.  yaml.Unmarshal is the library's; the     *)
(* model knows what it yields for the blocks the documents below carry and *)
(* reports every other text as not decodable.                              *)
(***************************************************************************)
YamlVct == "\nvct: https://registry.siros.org/credentials/pid\n"
YamlId == "\nid: pid\nbackground_color: \"\\\"#003399\\\"\"\n"
YamlDoctype == "\ndoctype: org.iso.18013.5.1.mDL\norder: 10\n"
YamlFormats == "\nformats:\n  mddl:\n    doctype: eu.europa.ec.eudi.pid.1\n"
YamlIdFormats ==
    "\nid: pid\nformats:\n  mddl:\n    doctype: eu.europa.ec.eudi.pid.1\n"
    \o "  vctm:\n    vct: https://credentials.example.com/pid/v1\n"
YamlDoctypeFormats ==
    "\ndoctype: org.iso.18013.5.1.mDL\nformats:\n  mddl:\n"
    \o "    doctype: eu.europa.ec.eudi.pid.1\n"
YamlDisplay ==
    "\nid: pid\ndisplay:\n  de-DE:\n    name: Personalausweis\n"
    \o "    description: Ein Ausweis\n  fr-FR:\n    name: Carte\n"
YamlDisplayDefault ==
    "\nid: pid\ndisplay:\n  en-US:\n    name: Person ID\n  de-DE:\n"
    \o "    name: Personalausweis\n"
YamlDisplayScalar == "\nid: pid\ndisplay: none\n"
YamlUndecodable == "\nvct: [unclosed\n"
\* a block that no fence line closes, with --- inside a value, and what
\* precedes that ---
YamlDashes == "\nid: pid\ndescription: PID --- draft\n"
YamlDashesCut == "\nid: pid\ndescription: PID "

\* the display maps of the two blocks that carry one
DisplayDeFr ==
    ("de-DE" :> [Name |-> "Personalausweis", Description |-> "Ein Ausweis"])
    @@ ("fr-FR" :> [Name |-> "Carte", Description |-> ""])
DisplayEnDe ==
    ("en-US" :> [Name |-> "Person ID", Description |-> ""])
    @@ ("de-DE" :> [Name |-> "Personalausweis", Description |-> ""])

\* the display map as the generic decoding holds it
GenericDisplay(d) ==
    YMap([l \in DOMAIN d |->
            YMap(("name" :> YStr(d[l].Name))
                 @@ (IF d[l].Description # ""
                     THEN "description" :> YStr(d[l].Description) ELSE EmptyMap))])

\* the decodable blocks: what yaml.Unmarshal stores into a
\* map[string]interface{}
YamlGeneric ==
    ("" :> EmptyMap)
    @@ ("\n" :> EmptyMap)
    @@ (YamlDashesCut :> (("id" :> YStr("pid")) @@ ("description" :> YStr("PID"))))
    @@ (YamlVct :> ("vct" :> YStr("https://registry.siros.org/credentials/pid")))
    @@ (YamlId :> (("id" :> YStr("pid")) @@ ("background_color" :> YStr("\"#003399\""))))
    @@ (YamlDoctype :> (("doctype" :> YStr("org.iso.18013.5.1.mDL")) @@ ("order" :> YInt(10))))
    @@ (YamlFormats :>
          ("formats" :> YMap("mddl" :> YMap("doctype" :> YStr("eu.europa.ec.eudi.pid.1")))))
    @@ (YamlIdFormats :>
          (("id" :> YStr("pid"))
           @@ ("formats" :> YMap(("mddl" :> YMap("doctype" :> YStr("eu.europa.ec.eudi.pid.1")))
                                 @@ ("vctm" :> YMap("vct" :>
                                        YStr("https://credentials.example.com/pid/v1")))))))
    @@ (YamlDoctypeFormats :>
          (("doctype" :> YStr("org.iso.18013.5.1.mDL"))
           @@ ("formats" :> YMap("mddl" :> YMap("doctype" :> YStr("eu.europa.ec.eudi.pid.1"))))))
    @@ (YamlDisplay :> (("id" :> YStr("pid")) @@ ("display" :> GenericDisplay(DisplayDeFr))))
    @@ (YamlDisplayDefault :>
          (("id" :> YStr("pid")) @@ ("display" :> GenericDisplay(DisplayEnDe))))
    @@ (YamlDisplayScalar :> (("id" :> YStr("pid")) @@ ("display" :> YStr("none"))))

\* yaml.Unmarshal(frontMatter, &genericMap): whether err == nil, and the map
UnmarshalGeneric(frontMatter) ==
    IF frontMatter \in DOMAIN YamlGeneric
    THEN [ok |-> TRUE, v |-> YamlGeneric[frontMatter]]
    ELSE [ok |-> FALSE, v |-> EmptyMap]

\* yaml.Unmarshal(frontMatter, &fmData): err == nil && fmData.Display != nil,
\* and fmData.Display; a display that is no mapping is a decoding error
UnmarshalDisplay(frontMatter) ==
    CASE frontMatter = YamlDisplay -> [ok |-> TRUE, v |-> DisplayDeFr]
      [] frontMatter = YamlDisplayDefault -> [ok |-> TRUE, v |-> DisplayEnDe]
      [] OTHER -> [ok |-> FALSE, v |-> EmptyMap]

\* the loop over genericMap: only the keys whose values are strings are kept
FrontMatterMetadata(genericMap) ==
    [k \in {x \in DOMAIN genericMap : genericMap[x].t = "string"} |-> genericMap[k].s]

\* extractFrontMatter on the bytes of a document
extractFrontMatter(content) ==
    LET rest == SubSeq(content, 4, Len(content))
        endIndex == Index(rest, "---")
        frontMatter == SubSeq(rest, 1, endIndex - 1)
        disp == UnmarshalDisplay(frontMatter)
        generic == UnmarshalGeneric(frontMatter)
    IN  IF ~HasPrefix(content, "---") \/ endIndex = 0
        THEN [metadata |-> EmptyMap, displayLocs |-> EmptyMap]
        ELSE [metadata |-> IF generic.ok THEN FrontMatterMetadata(generic.v) ELSE EmptyMap,
              displayLocs |-> IF disp.ok THEN disp.v ELSE EmptyMap]

\* ParseContent.  A document is its bytes up to the body (text) and what
\* the walk over the body meets: the first heading (Title), the paragraph
\* after it (Description), the images (Images) and the lists (Lists).  The
\* walk's callback never returns an error, so the result is always the
\* parsed structure.
ParseContent(content) ==
    [Title |-> content.Title,
     Description |-> content.Description,
     Images |-> content.Images,
     Claims |-> ParseLists(content.Lists, 1, EmptyMap),
     Metadata |-> extractFrontMatter(content.text).metadata,
     DisplayLocalizations |-> extractFrontMatter(content.text).displayLocs]

(***************************************************************************)
(* Package parser: the model builder.  A map of the model that a generator *)
(* ranges over is held as the sequence of its entries in the order of that *)
(* range, every order being possible.                                      *)
(***************************************************************************)
\* the known front-matter keys routed to typed fields
MetaField(parsed, key, default) ==
    IF Has(parsed.Metadata, key) THEN parsed.Metadata[key] ELSE default

\* the entries of map m in the order a range visits them, given the order
\* of all locale codes
RangeOrder(m, localeOrder) ==
    LET present == SelectSeq(localeOrder, LAMBDA l : l \in DOMAIN m)
    IN  [i \in 1..Len(present) |-> [Locale |-> present[i], Value |-> m[present[i]]]]

\* the locale codes a parsed document mentions
LocalesOf(parsed) ==
    (DOMAIN parsed.DisplayLocalizations)
    \cup UNION {DOMAIN parsed.Claims[n].Localizations : n \in DOMAIN parsed.Claims}

\* one ClaimDefinition of the model, built from the ClaimDef named name
ToClaimDefinition(name, claim, localeOrder) ==
    [Name |-> name,
     Path |-> Split(name, "."),
     DisplayName |-> claim.DisplayName,
     Type |-> claim.Type,
     Description |-> claim.Description,
     Mandatory |-> claim.Mandatory,
     SD |-> claim.SD,
     SvgId |-> claim.SvgId,
     Localizations |-> RangeOrder(claim.Localizations, localeOrder),
     FormatMappings |-> EmptyMap]

\* ToCredential; order is the order in which the range over the claims map
\* visits its keys
ToCredential(config, parsed, order, localeOrder) ==
    LET fileID == IF config.InputFile # ""
                  THEN TrimSuffix(Base(config.InputFile), Ext(Base(config.InputFile)))
                  ELSE ""
    IN  [ID |-> MetaField(parsed, "id", fileID),
         Name |-> parsed.Title,
         VCT |-> MetaField(parsed, "vct", ""),
         DocType |-> MetaField(parsed, "doctype", ""),
         Namespace |-> MetaField(parsed, "namespace", ""),
         W3CTypes |-> <<>>,
         W3CContext |-> <<>>,
         Description |-> parsed.Description,
         BackgroundColor |-> Trim(MetaField(parsed, "background_color", ""), "\""),
         TextColor |-> Trim(MetaField(parsed, "text_color", ""), "\""),
         SourcePath |-> config.InputFile,
         Localizations |-> RangeOrder(parsed.DisplayLocalizations, localeOrder),
         Claims |-> [i \in 1..Len(order) |->
                        ToClaimDefinition(order[i], parsed.Claims[order[i]], localeOrder)],
         FormatOverrides |-> EmptyMap,
         ClaimMappings |-> EmptyMap,
         Metadata |-> parsed.Metadata]

\* Config.GetVCT for a configuration that sets no vct of its own
GetVCT(config) ==
    IF config.BaseURL # ""
    THEN TrimSuffix(config.BaseURL, "/") \o "/"
         \o TrimSuffix(Base(config.InputFile), Ext(Base(config.InputFile)))
    ELSE ""

\* buildImageURL
buildImageURL(config, path) ==
    TrimSuffix(config.BaseURL, "/") \o "/" \o TrimPrefix(path, "./")

\* Parser.imageToLogo; the integrity, a hash of the bytes of the file, is
\* left out
imageToLogo(config, img) ==
    [URI |-> IF config.BaseURL # "" THEN buildImageURL(config, img.Path) ELSE img.Path,
     AltText |-> img.AltText]

\* buildRendering, the simple rendering: the first image as logo, the colours
\* and the background image of the metadata
buildSimple(config, parsed) ==
    (IF Len(parsed.Images) > 0
     THEN "logo" :> imageToLogo(config, parsed.Images[1]) ELSE EmptyMap)
    @@ [k \in (DOMAIN parsed.Metadata)
                 \cap {"background_color", "text_color", "background_image"} |->
           Trim(parsed.Metadata[k], "\"")]

\* buildRendering, the SVG templates: one of every image whose path ends in
\* .svg in any letter case
buildSVGTemplates(config, parsed) ==
    LET svgs == SelectSeq(parsed.Images,
                          LAMBDA img : HasSuffix(ToLower(img.Path), ".svg"))
    IN  [i \in 1..Len(svgs) |-> [URI |-> buildImageURL(config, svgs[i].Path)]]

\* buildRendering; the empty map is the nil result
buildRendering(config, parsed) ==
    IF config.BaseURL = "" /\ Len(parsed.Images) > 0 THEN EmptyMap
    ELSE (IF buildSimple(config, parsed) # EmptyMap
          THEN "simple" :> buildSimple(config, parsed) ELSE EmptyMap)
         @@ (IF Len(buildSVGTemplates(config, parsed)) > 0
             THEN "svg_templates" :> buildSVGTemplates(config, parsed) ELSE EmptyMap)

\* ToVCTM, display: the entry of the default locale when the document has a
\* title or a description, then the display block in the order of the range
ToVCTMDisplay(config, parsed, localeOrder) ==
    LET others == SelectSeq(RangeOrder(parsed.DisplayLocalizations, localeOrder),
                            LAMBDA e : e.Locale # config.Language)
    IN  IF parsed.Title # "" \/ parsed.Description # ""
        THEN << [Locale |-> config.Language, Name |-> parsed.Title,
                 Description |-> parsed.Description,
                 Rendering |-> buildRendering(config, parsed)] >>
             \o [i \in 1..Len(others) |->
                   [Locale |-> others[i].Locale, Name |-> others[i].Value.Name,
                    Description |-> others[i].Value.Description,
                    Rendering |-> EmptyMap]]
        ELSE <<>>

\* ToVCTM, the display list of one claim
ToVCTMClaimDisplay(config, claim, localeOrder) ==
    LET others == SelectSeq(RangeOrder(claim.Localizations, localeOrder),
                            LAMBDA e : e.Locale # config.Language)
    IN  (IF claim.Description # "" \/ claim.DisplayName # ""
         THEN << [Locale |-> config.Language,
                  Label |-> IF claim.DisplayName # ""
                            THEN claim.DisplayName ELSE claim.Name,
                  Description |-> claim.Description] >>
         ELSE <<>>)
        \o [i \in 1..Len(others) |->
              [Locale |-> others[i].Locale,
               Label |-> IF others[i].Value.Label = "" /\ claim.DisplayName # ""
                         THEN claim.DisplayName ELSE others[i].Value.Label,
               Description |-> others[i].Value.Description]]

\* ToVCTM, one entry of the claims array
ToVCTMClaimEntry(config, name, claim, localeOrder) ==
    [Path |-> <<name>>,
     Mandatory |-> claim.Mandatory,
     SD |-> claim.SD,
     SvgId |-> claim.SvgId,
     Display |-> ToVCTMClaimDisplay(config, claim, localeOrder)]

\* ToVCTM; order and localeOrder as in ToCredential
ToVCTM(config, parsed, order, localeOrder) ==
    [VCT |-> IF Has(parsed.Metadata, "vct") THEN parsed.Metadata["vct"]
             ELSE GetVCT(config),
     Name |-> parsed.Title,
     Description |-> parsed.Description,
     Display |-> ToVCTMDisplay(config, parsed, localeOrder),
     Claims |-> [i \in 1..Len(order) |->
                   ToVCTMClaimEntry(config, order[i], parsed.Claims[order[i]],
                                    localeOrder)],
     Extends |-> IF Has(parsed.Metadata, "extends")
                 THEN TrimSpace(parsed.Metadata["extends"]) ELSE "",
     ExtendsIntegrity |-> IF Has(parsed.Metadata, "extends#integrity")
                          THEN TrimSpace(parsed.Metadata["extends#integrity"]) ELSE ""]

(***************************************************************************)
(* cmd: findMarkdownFiles.  A directory tree is the set of the paths of its *)
(* files, each the sequence of the names from below the root to the file.  *)
(***************************************************************************)
\* the test on a directory that returns filepath.SkipDir
SkipsDir(name) ==
    HasPrefix(name, ".") \/ name = "node_modules" \/ name = "vendor"

\* the test on a file
KeepsFile(name) ==
    /\ ToLower(Ext(name)) \in {".md", ".markdown"}
    /\ ~HasPrefix(name, "_")

\* findMarkdownFiles(dir) on a tree: filepath.Walk calls the function on
\* the root first, with the name that Lstat reports for dir, its last
\* element; SkipDir on a directory leaves out everything beneath it.  The
\* result is the set of the paths found, below the root.
findMarkdownFiles(dir, tree) ==
    IF SkipsDir(Base(dir)) THEN {}
    ELSE {p \in tree : /\ \A i \in 1..(Len(p) - 1) : ~SkipsDir(p[i])
                       /\ KeepsFile(p[Len(p)])}

(***************************************************************************)
(* The inputs the model is run on.                                         *)
(***************************************************************************)
\* sequences of length 1..n of distinct elements of S
DistinctSeqs(S, n) ==
    UNION {{f \in [1..k -> S] : \A i, j \in 1..k : f[i] = f[j] => i = j} : k \in 1..n}

\* the names init() registers (mddl, vctmfmt, w3c) and one nobody registers
RegisteredNames == {"mddl", "vctm", "w3c"}
FormatNames == RegisteredNames \cup {"jsonld"}
FormatLists == DistinctSeqs(FormatNames, MaxFormats)

Configs ==
    [BaseURL : {"", "https://registry.siros.org", "http://a.example/"},
     Language : {"en-US"},
     InputFile : {"", "creds/mdl.md"}]

EmptyModel ==
    [ID |-> "", Name |-> "", VCT |-> "", DocType |-> "", Namespace |-> "",
     W3CTypes |-> <<>>, W3CContext |-> <<>>, Description |-> "",
     BackgroundColor |-> "", TextColor |-> "", SourcePath |-> "",
     Localizations |-> <<>>,
     Claims |-> <<>>, FormatOverrides |-> EmptyMap, ClaimMappings |-> EmptyMap,
     Metadata |-> EmptyMap]

\* override tables as a caller may set them: string values, an empty string,
\* a value of another type, lists with and without the base type
OverrideTables ==
    { EmptyMap,
      "mddl" :> ("doctype" :> YStr("eu.europa.ec.eudi.pid.1")),
      "mddl" :> ("doctype" :> YStr("")),
      "mddl" :> ("doctype" :> YInt(7)),
      "mddl" :> ("namespace" :> YStr("eu.europa.ec.eudi.pid.1")),
      "vctm" :> ("vct" :> YStr("https://credentials.example.com/pid/v1")),
      "w3c" :> ("type" :> YList(<<YStr("EUPersonIdentificationData")>>)),
      "w3c" :> ("type" :> YList(<<YStr("EUPid"), YStr("VerifiableCredential")>>)),
      "w3c" :> ("type" :> YList(<<YInt(7)>>)) }

\* models that differ in their identifiers
IdentModels ==
    { [EmptyModel EXCEPT !.ID = id, !.Name = n, !.VCT = v, !.DocType = d,
                         !.Namespace = ns, !.FormatOverrides = o] :
        id \in {"", "pid"}, n \in {"", "Person Identification Data"},
        v \in {"", "https://registry.siros.org/credentials/pid"},
        d \in {"", "org.iso.18013.5.1.mDL"}, ns \in {"", "org.iso.18013.5.1"},
        o \in OverrideTables }

\* models with an explicit W3C type list
W3CTypeModels ==
    { [EmptyModel EXCEPT !.ID = id, !.Name = n, !.W3CTypes = t, !.FormatOverrides = o] :
        id \in {"", "pid"}, n \in {"", "EU-Person Data"},
        t \in { <<"PersonCredential">>,
                <<"VerifiableCredential", "PersonCredential">>,
                <<"PersonCredential", "VerifiableCredential">> },
        o \in { EmptyMap,
                "w3c" :> ("type" :> YList(<<YStr("EUPersonIdentificationData")>>)) } }

EmptyClaim ==
    [Name |-> "", Path |-> <<"">>, DisplayName |-> "", Type |-> "string",
     Description |-> "", Mandatory |-> FALSE, SD |-> "", SvgId |-> "",
     Localizations |-> <<>>, FormatMappings |-> EmptyMap]

ClaimPool ==
    { [EmptyClaim EXCEPT !.Name = "given_name", !.Path = <<"given_name">>,
                         !.DisplayName = "Given Name", !.Mandatory = TRUE],
      [EmptyClaim EXCEPT !.Name = "address.street", !.Path = <<"address", "street">>,
                         !.Description = "Street", !.SD = "always", !.SvgId = "street",
                         !.FormatMappings = ("w3c" :> "streetAddress")
                                            @@ ("mddl" :> "resident_street")],
      [EmptyClaim EXCEPT !.Name = "family_name", !.Path = <<"family_name">>,
                         !.Localizations =
                            << [Locale |-> "en-US",
                                Value |-> [Label |-> "Surname", Description |-> ""]],
                               [Locale |-> "de-DE",
                                Value |-> [Label |-> "", Description |-> "Der Nachname"]] >>],
      [EmptyClaim EXCEPT !.Name = "birth_date", !.Path = <<"birth_date">>,
                         !.Type = "date", !.Mandatory = TRUE, !.SD = "never",
                         !.FormatMappings = ("w3c" :> "birthDate")] }

\* bulk tables; the last maps a claim onto the name of another claim
ClaimMappingTables ==
    { EmptyMap,
      ("w3c" :> (("birth_date" :> "dateOfBirth") @@ ("given_name" :> "givenName")))
        @@ ("mddl" :> ("birth_date" :> "birthdate")),
      "w3c" :> ("address.street" :> "given_name") }

\* models that differ in their claims
ClaimModels ==
    { [EmptyModel EXCEPT !.ID = "pid", !.Name = "Person Identification Data",
                         !.Claims = cs, !.ClaimMappings = m] :
        cs \in DistinctSeqs(ClaimPool, MaxClaims), m \in ClaimMappingTables }

Models == IdentModels \cup W3CTypeModels \cup ClaimModels

\* the bytes of a document that opens with a fenced block
Fenced(frontMatter) == "---" \o frontMatter \o "---\n"

\* how a document may begin: without front matter, or with one of the blocks
DocumentHeads ==
    {""} \cup {Fenced(b) : b \in {YamlVct, YamlId, YamlDoctype, YamlFormats, YamlIdFormats,
                                  YamlDoctypeFormats, YamlDisplay, YamlDisplayDefault}}

\* list items as the walk finds them in the body of a document: the first
\* text block and the nested lists
GivenNameItem ==
    [text |-> "'given_name' \"Given Name\" (string): First name [mandatory]",
     nested |-> <<>>]
StreetItem ==
    [text |-> "'address.street': [sd=always, svg_id=street]", nested |-> <<>>]
FamilyNameItem ==
    [text |-> "'family_name' \"Family Name\": The family name [mandatory]",
     nested |-> << << "de-DE: \"Nachname\" - Der Nachname",
                      "en-US: \"Surname\"",
                      "see the notes below" >> >>]

Contents ==
    [text : DocumentHeads,
     Title : {"", "Person Identification Data"},
     Description : {""},
     Images : {<<>>},
     Lists : { <<>>,
               << <<GivenNameItem, StreetItem>> >>,
               << <<FamilyNameItem>> >> }]

NoContent ==
    [text |-> "", Title |-> "", Description |-> "", Images |-> <<>>, Lists |-> <<>>]
\* list items with what they are: the claim name ("" for an item that is no
\* claim) and the locales of the nested lines that are locale lines
NicknameItem ==
    [text |-> "'nickname'",
     nested |-> << << "de-DE: \"Spitzname\"", "engl: Nickname" >>,
                   << "sv: Smeknamn", "de_DE: Spitzname", "- fr: Surnom" >> >>]
TaggedItems ==
    { [item |-> StreetItem, name |-> "address.street", locales |-> {}],
      [item |-> FamilyNameItem, name |-> "family_name", locales |-> {"de-DE", "en-US"}],
      [item |-> NicknameItem, name |-> "nickname", locales |-> {"de-DE", "sv"}],
      [item |-> [text |-> "given_name (string): no quotes around the name",
                 nested |-> << << "de-DE: \"Vorname\"" >> >>],
       name |-> "", locales |-> {}],
      [item |-> [text |-> "'': nothing between the quotes", nested |-> <<>>],
       name |-> "", locales |-> {}],
      [item |-> [text |-> "see 'birth_date' above", nested |-> <<>>],
       name |-> "", locales |-> {}],
      [item |-> [text |-> "", nested |-> << << "fr-FR: \"Nom\"" >> >>],
       name |-> "", locales |-> {}] }

\* documents whose one list is a sequence of tagged items
TaggedDocuments ==
    [text : {"", Fenced(YamlDisplayDefault)},
     Title : {"", "Person Identification Data"},
     tagged : DistinctSeqs(TaggedItems, MaxItems)]

\* the document of a tagged document
DocumentOf(td) ==
    [text |-> td.text, Title |-> td.Title, Description |-> "", Images |-> <<>>,
     Lists |-> << [i \in 1..Len(td.tagged) |-> td.tagged[i].item] >>]

\* the bytes extractFrontMatter is called on, with what they are: nofence
\* (no --- at the start), unclosed (no --- line after the first),
\* undecodable, or decodable with the block between the fence lines
RawContents ==
    { [bytes |-> "", kind |-> "nofence", block |-> ""],
      [bytes |-> "# Person\n", kind |-> "nofence", block |-> ""],
      [bytes |-> "--", kind |-> "nofence", block |-> ""],
      [bytes |-> "# Person\n" \o Fenced(YamlId), kind |-> "nofence", block |-> ""],
      [bytes |-> "---", kind |-> "unclosed", block |-> ""],
      [bytes |-> "---" \o YamlVct, kind |-> "unclosed", block |-> ""],
      [bytes |-> "---" \o YamlDashes \o "# Person\n", kind |-> "unclosed", block |-> ""],
      [bytes |-> Fenced(YamlUndecodable), kind |-> "undecodable", block |-> ""] }
    \cup { [bytes |-> Fenced(b) \o body, kind |-> "decodable", block |-> b] :
             b \in {YamlVct, YamlId, YamlDoctype, YamlFormats, YamlIdFormats,
                    YamlDoctypeFormats, YamlDisplay, YamlDisplayDefault,
                    YamlDisplayScalar},
             body \in {"", "# Person\n"} }

\* the files a directory may hold, and the directories the batch run may be
\* given: the default "." among them
TreeFiles ==
    { <<"pid.md">>, <<"README.MD">>, <<"_template.md">>, <<"notes.txt">>,
      <<"eu", "mdl.markdown">>, <<".git", "hooks.md">>,
      <<"docs", "node_modules", "pkg", "readme.md">>, <<"vendor", "a.md">> }
InputDirs == {".", "creds", "./creds"}

\* the images of a document, in document order
ImagePool ==
    { [Path |-> "logo.png", AltText |-> "Logo"],
      [Path |-> "./img/card.svg", AltText |-> "Card"],
      [Path |-> "TEMPLATE.SVG", AltText |-> ""] }
ImageLists == {<<>>} \cup DistinctSeqs(ImagePool, MaxImages)

NoOutputs == [results |-> EmptyMap, err |-> ""]
NoIdent == [format |-> "", id |-> ""]
NoCall == [fn |-> "", arg |-> "", reg |-> {}, ret |-> ""]

\* format strings as the --format flag may carry them
FormatStrings ==
    { "", "  ", "all", " all ", "vctm", "vctm,mddl", " w3c , vctm ", "mddl,vctm",
      "vctm,jsonld", "jsonld , vctm", "bogus", ",", " , ", "vctm,,mddl", "all,vctm",
      "vctm,vctm" }

\* the bracket groups written after a description, each a list of flags
FlagGroups ==
    { <<>>,
      << <<"mandatory">> >>,
      << <<"Mandatory">> >>,
      << <<"MANDATORY", "sd=always">> >>,
      << <<"sd=always">>, <<"mandatory">> >>,
      << <<"optional">> >>,
      << <<"mandatory=true">> >>,
      << <<"sd=never">> >>,
      << <<"svg_id=Given_Name">> >>,
      << <<"SVG_ID=Given_Name">> >>,
      << <<"Svg_Id=Field7", "SD=Always">> >>,
      << <<"mandatory", "sd=always", "svg_id=secret_field">> >> }

\* list items written after the claim-declaration grammar
\* NAME ["DISPLAY"] [(TYPE)] [:] DESCRIPTION; the colon is left out only
\* after a type
ClaimItems ==
    { it \in [name : {"given_name"},
              display : {"", "Given Name"},
              type : {"", "date"},
              colon : {":", ""},
              desc : {"", "The given name", "mandatory for students"},
              groups : FlagGroups,
              paren : {"", "(mandatory)", "(Mandatory)"}] :
        it.colon = "" => it.type # "" }

\* the text of a group: [flag, flag, ...]
RenderGroup(flags) == " [" \o Join(flags, ", ") \o "]"

RECURSIVE RenderGroups(_)
RenderGroups(groups) ==
    IF Len(groups) = 0 THEN ""
    ELSE RenderGroup(Head(groups)) \o RenderGroups(Tail(groups))

\* the text of a list item
RenderItem(it) ==
    Backquote \o it.name \o Backquote
    \o (IF it.display # "" THEN " \"" \o it.display \o "\"" ELSE "")
    \o (IF it.type # "" THEN " (" \o it.type \o ")" ELSE "")
    \o it.colon
    \o (IF it.desc # "" THEN " " \o it.desc ELSE "")
    \o RenderGroups(it.groups)
    \o (IF it.paren # "" THEN " " \o it.paren ELSE "")

\* what findMarkdownFiles may hand to runBatch: a file that cannot be read,
\* one that names its doctype, one that names no identifier at all
UnreadableFile == [readable |-> FALSE, content |-> NoContent]
FileKinds ==
    { UnreadableFile,
      [readable |-> TRUE,
       content |-> [NoContent EXCEPT !.text = Fenced(YamlDoctype),
                                     !.Title = "Driving Licence"]],
      [readable |-> TRUE,
       content |-> [NoContent EXCEPT
                      !.Title = "Person Identification Data",
                      !.Lists = << <<GivenNameItem>> >>]] }

BatchPaths == <<"a.md", "b.md", "c.md", "d.md", "e.md">>

\* the lists ParseFormats can resolve: registered names only
ResolvedFormatLists == DistinctSeqs(RegisteredNames, MaxFormats)

(***************************************************************************)
(* State.  One conversion: a Parser with its configuration, the document   *)
(* it was given, the model, and what the calls on the model returned.  One *)
(* batch run: the files found, the position of the loop, the files written *)
(* and how runBatch returned.                                              *)
(***************************************************************************)
VARIABLES
    pc,           \* "start", "model", "derived", "generated", "again"; "batch" in a batch
                  \* run; the position of runGenerate; "walk", "registry", "parse"
    config,       \* the Parser's configuration
    generators,   \* names registered in the default registry
    content,      \* the document handed to ParseContentToCredential
    fromContent,  \* whether the model was built from content
    cred,         \* the ParsedCredential
    formatNames,  \* the list handed to Parser.Generate
    outputs,      \* what Parser.Generate returned
    ident,        \* what the last DeriveIdentifier call returned, and of which format
    mdFiles,      \* runBatch: the files findMarkdownFiles returned
    batchPos,     \* runBatch: index of the file the loop is at
    written,      \* runBatch: <<file index, format>> of every output file written;
                  \* runGenerate: <<format, path>> of every output file written
    credentials,  \* runBatch: the registry entries collected
    batchRet,     \* runBatch, runGenerate: "idle", "running", "ok" or the error returned
    call,         \* the last call of a function: fn, arg, the registry then (reg), ret
    walk,         \* ParseContent: the state of the walk over the syntax tree
    mu,           \* Registry.mu: the goroutine writing, the goroutines reading
    threads       \* the goroutines calling the registry: their call and position

convVars == <<pc, content, fromContent, cred, outputs, ident>>
batchVars == <<mdFiles, batchPos, written, credentials, batchRet>>
otherVars == <<walk, mu, threads>>
vars == <<pc, config, generators, content, fromContent, cred, formatNames, outputs,
          ident, mdFiles, batchPos, written, credentials, batchRet, call,
          walk, mu, threads>>

\* no walk under way, the zero value of sync.RWMutex, no goroutine started
NoWalk == [todo |-> <<>>, done |-> FALSE]
NoLock == [writer |-> 0, readers |-> {}, waiting |-> {}]
NoThreads == <<>>

Init ==
    /\ pc = "start"
    /\ config \in Configs
    /\ generators = RegisteredNames
    /\ content = NoContent
    /\ fromContent = FALSE
    /\ cred = EmptyModel
    /\ formatNames = <<>>
    /\ outputs = NoOutputs
    /\ ident = NoIdent
    /\ mdFiles = <<>>
    /\ batchPos = 0
    /\ written = {}
    /\ credentials = <<>>
    /\ batchRet = "idle"
    /\ call = NoCall
    /\ walk = NoWalk
    /\ mu = NoLock
    /\ threads = NoThreads

\* a caller builds the model itself
NewCredential ==
    /\ pc = "start"
    /\ \E m \in Models : cred' = m
    /\ pc' = "model"
    /\ UNCHANGED <<config, generators, content, fromContent, formatNames, outputs, ident>>
    /\ UNCHANGED <<batchVars, otherVars>>
    /\ UNCHANGED call

\* Parser.ParseContentToCredential
ParseContentToCredential ==
    /\ pc = "start"
    /\ \E c \in Contents :
         /\ content' = c
         /\ \E order \in Perms(DOMAIN ParseContent(c).Claims),
                 localeOrder \in Perms(LocalesOf(ParseContent(c))) :
              cred' = ToCredential(config, ParseContent(c), order, localeOrder)
    /\ fromContent' = TRUE
    /\ pc' = "model"
    /\ UNCHANGED <<config, generators, formatNames, outputs, ident>>
    /\ UNCHANGED <<batchVars, otherVars>>
    /\ UNCHANGED call

\* Generator.DeriveIdentifier of a registered generator
DeriveIdentifier ==
    /\ pc = "model"
    /\ \E name \in generators :
         ident' = [format |-> name, id |-> GeneratorDeriveIdentifier(name, cred, config)]
    /\ pc' = "derived"
    /\ UNCHANGED <<config, generators, content, fromContent, cred, formatNames, outputs>>
    /\ UNCHANGED <<batchVars, otherVars>>
    /\ UNCHANGED call

\* Parser.Generate
Generate ==
    /\ pc = "model"
    /\ \E names \in FormatLists :
         /\ formatNames' = names
         /\ outputs' = ParserGenerate(generators, cred, config, names)
    /\ pc' = "generated"
    /\ UNCHANGED <<config, generators, content, fromContent, cred, ident>>
    /\ UNCHANGED <<batchVars, otherVars>>
    /\ UNCHANGED call

\* a second run on the same document, configuration and registry:
\* ParseContent, ToCredential and Parser.Generate for the same formats; the
\* ranges over the maps take an order of their own
GenerateAgain ==
    /\ pc = "generated"
    /\ fromContent
    /\ LET parsed == ParseContent(content)
       IN  \E order \in Perms(DOMAIN parsed.Claims),
              localeOrder \in Perms(LocalesOf(parsed)) :
             call' = [fn |-> "Generate", arg |-> content.text, reg |-> generators,
                      ret |-> ParserGenerate(generators,
                                 ToCredential(config, parsed, order, localeOrder),
                                 config, formatNames)]
    /\ pc' = "again"
    /\ UNCHANGED <<config, generators, content, fromContent, cred, formatNames,
                   outputs, ident>>
    /\ UNCHANGED <<batchVars, otherVars>>

Next ==
    \/ NewCredential \/ ParseContentToCredential \/ DeriveIdentifier \/ Generate
    \/ GenerateAgain

Spec == Init /\ [][Next]_vars

(***************************************************************************)
(* cmd: runBatch.  The flags are parsed, the formats resolved and the      *)
(* files found; every step of the loop handles one file.                   *)
(***************************************************************************)
BatchConfig(baseURL, mdFile) ==
    [BaseURL |-> baseURL, Language |-> "en-US", InputFile |-> mdFile]

InitBatch ==
    /\ pc = "batch"
    /\ config \in {BatchConfig(b, "") : b \in {"", "https://registry.siros.org"}}
    /\ generators = RegisteredNames
    /\ content = NoContent
    /\ fromContent = FALSE
    /\ cred = EmptyModel
    /\ formatNames \in ResolvedFormatLists
    /\ outputs = NoOutputs
    /\ ident = NoIdent
    /\ mdFiles \in UNION {[1..n -> FileKinds] : n \in 1..MaxFiles}
    /\ batchPos = 1
    /\ written = {}
    /\ credentials = <<>>
    /\ batchRet = "running"
    /\ call = NoCall
    /\ walk = NoWalk
    /\ mu = NoLock
    /\ threads = NoThreads

\* one pass of the loop over mdFiles: parse, generate, write, add the entry;
\* a failure returns from runBatch
BatchProcessFile ==
    /\ batchRet = "running"
    /\ batchPos <= Len(mdFiles)
    /\ LET mdFile == BatchPaths[batchPos]
           cfg == BatchConfig(config.BaseURL, mdFile)
           file == mdFiles[batchPos]
       IN  /\ config' = cfg
           /\ IF ~file.readable
              THEN /\ batchRet' = "failed to parse " \o mdFile
                   /\ UNCHANGED <<content, fromContent, cred, outputs, ident,
                                  batchPos, written, credentials>>
              ELSE \E order \in Perms(DOMAIN ParseContent(file.content).Claims),
                      localeOrder \in Perms(LocalesOf(ParseContent(file.content))) :
                     LET c == ToCredential(cfg, ParseContent(file.content), order,
                                           localeOrder)
                         out == ParserGenerate(generators, c, cfg, formatNames)
                     IN  /\ content' = file.content
                         /\ fromContent' = TRUE
                         /\ cred' = c
                         /\ outputs' = out
                         /\ IF out.err # ""
                            THEN /\ batchRet' = "failed to generate output for " \o mdFile
                                 /\ UNCHANGED <<ident, batchPos, written, credentials>>
                            ELSE /\ written' = written \cup
                                       {<<batchPos, n>> : n \in DOMAIN out.results}
                                 /\ ident' = [format |-> "vctm",
                                              id |-> VctmDeriveIdentifier(c, cfg)]
                                 /\ credentials' = Append(credentials,
                                       [VCT |-> VctmDeriveIdentifier(c, cfg),
                                        Name |-> c.Name, SourceFile |-> mdFile])
                                 /\ batchPos' = batchPos + 1
                                 /\ UNCHANGED batchRet
    /\ UNCHANGED <<pc, generators, formatNames, mdFiles, call, otherVars>>

\* after the loop: the registry is generated and runBatch returns nil
BatchFinish ==
    /\ batchRet = "running"
    /\ batchPos > Len(mdFiles)
    /\ batchRet' = "ok"
    /\ UNCHANGED <<pc, config, generators, content, fromContent, cred, formatNames,
                   outputs, ident, mdFiles, batchPos, written, credentials, call,
                   otherVars>>

NextBatch == BatchProcessFile \/ BatchFinish

SpecBatch == InitBatch /\ [][NextBatch]_vars

(***************************************************************************)
(* The functions of package formats and package parser that work on text,  *)
(* called one at a time on a registry that generators are registered in.   *)
(***************************************************************************)
InitParse ==
    /\ pc = "parse"
    /\ config \in {BatchConfig("https://registry.siros.org", "creds/pid.md")}
    /\ generators = {}
    /\ content = NoContent
    /\ fromContent = FALSE
    /\ cred = EmptyModel
    /\ formatNames = <<>>
    /\ outputs = NoOutputs
    /\ ident = NoIdent
    /\ mdFiles = <<>>
    /\ batchPos = 0
    /\ written = {}
    /\ credentials = <<>>
    /\ batchRet = "idle"
    /\ call = NoCall
    /\ walk = NoWalk
    /\ mu = NoLock
    /\ threads = NoThreads

parseFrame == <<pc, config, content, fromContent, cred, formatNames, outputs, ident,
                mdFiles, batchPos, written, credentials, batchRet, otherVars>>

\* Registry.Register
Register ==
    /\ call.fn = ""
    /\ \E name \in FormatNames : generators' = generators \cup {name}
    /\ UNCHANGED <<parseFrame, call>>

\* Registry.ParseFormats on the registry as it is
ResolveFormats ==
    /\ call.fn = ""
    /\ \E formatStr \in FormatStrings :
         call' = [fn |-> "ParseFormats", arg |-> formatStr, reg |-> generators,
                  ret |-> ParseFormats(generators, formatStr)]
    /\ UNCHANGED <<parseFrame, generators>>

\* parseClaimFromListItem on the text of a list item
ParseClaimItem ==
    /\ call.fn = ""
    /\ \E it \in ClaimItems :
         call' = [fn |-> "parseClaimFromListItem", arg |-> RenderItem(it), item |-> it,
                  reg |-> generators, ret |-> parseClaimFromListItem(RenderItem(it))]
    /\ UNCHANGED <<parseFrame, generators>>

\* ParseContent on a document; the callback of the walk returns a nil error
\* at every exit, so the error of ParseContent is nil
ParseDocument ==
    /\ call.fn = ""
    /\ \E td \in TaggedDocuments :
         call' = [fn |-> "ParseContent", arg |-> td.text, doc |-> td, reg |-> generators,
                  ret |-> [parsed |-> ParseContent(DocumentOf(td)), err |-> ""]]
    /\ UNCHANGED <<parseFrame, generators>>

\* ParseContent, then ToVCTM on what it returned
ConvertToVCTM ==
    /\ call.fn = ""
    /\ \E td \in TaggedDocuments :
         \E order \in Perms(DOMAIN ParseContent(DocumentOf(td)).Claims),
            localeOrder \in Perms(LocalesOf(ParseContent(DocumentOf(td)))) :
              call' = [fn |-> "ToVCTM", arg |-> td.text, doc |-> td, reg |-> generators,
                       ret |-> ToVCTM(config, ParseContent(DocumentOf(td)), order,
                                      localeOrder)]
    /\ UNCHANGED <<parseFrame, generators>>

\* extractFrontMatter on the bytes of a document
ExtractFrontMatter ==
    /\ call.fn = ""
    /\ \E raw \in RawContents :
         call' = [fn |-> "extractFrontMatter", arg |-> raw.bytes, raw |-> raw,
                  reg |-> generators, ret |-> extractFrontMatter(raw.bytes)]
    /\ UNCHANGED <<parseFrame, generators>>

\* buildRendering on what ParseContent returned for a document with images,
\* by a Parser with or without a base URL
BuildRendering ==
    /\ call.fn = ""
    /\ \E images \in ImageLists, baseURL \in {config.BaseURL, ""},
          text \in {"", Fenced(YamlId)} :
         call' = [fn |-> "buildRendering", arg |-> baseURL, images |-> images,
                  reg |-> generators,
                  ret |-> buildRendering([config EXCEPT !.BaseURL = baseURL],
                             ParseContent([NoContent EXCEPT !.text = text,
                                                            !.Images = images]))]
    /\ UNCHANGED <<parseFrame, generators>>

\* findMarkdownFiles on a directory
FindMarkdownFiles ==
    /\ call.fn = ""
    /\ \E dir \in InputDirs, tree \in SUBSET TreeFiles :
         call' = [fn |-> "findMarkdownFiles", arg |-> dir, tree |-> tree,
                  reg |-> generators, ret |-> findMarkdownFiles(dir, tree)]
    /\ UNCHANGED <<parseFrame, generators>>

NextParse ==
    \/ Register \/ ResolveFormats \/ ParseClaimItem
    \/ ParseDocument \/ ConvertToVCTM \/ ExtractFrontMatter
    \/ FindMarkdownFiles \/ BuildRendering

SpecParse == InitParse /\ [][NextParse]_vars

(***************************************************************************)
(* parser: the walk of ParseContent over the syntax tree, one node a step. *)
(* A node is what goldmark hands to the callback: its kind, the level of a *)
(* heading, the bytes of a text segment, the destination of an image and   *)
(* its children.  ast.Walk enters a node, then its children from first to  *)
(* last, unless the callback answers WalkSkipChildren; leaving a node does *)
(* nothing.  todo holds the nodes not yet entered, in that order.          *)
(***************************************************************************)
Node(kind, level, value, dest, kids) ==
    [kind |-> kind, Level |-> level, value |-> value, Destination |-> dest, kids |-> kids]

Text(value) == Node("Text", 0, value, "", <<>>)
Image(dest, alt) == Node("Image", 0, "", dest, IF alt = "" THEN <<>> ELSE <<Text(alt)>>)
Heading(level, text) == Node("Heading", level, "", "", IF text = "" THEN <<>> ELSE <<Text(text)>>)
Paragraph(kids) == Node("Paragraph", 0, "", "", kids)
ListItem(kids) == Node("ListItem", 0, "", "", kids)
List(kids) == Node("List", 0, "", "", kids)
Blockquote(kids) == Node("Blockquote", 0, "", "", kids)
Document(kids) == Node("Document", 0, "", "", kids)

\* extractText: the text segments below the node, in order, trimmed at
\* every level
RECURSIVE extractTextFrom(_, _)
RECURSIVE extractText(_)
extractTextFrom(kids, i) ==
    IF i > Len(kids) THEN ""
    ELSE (IF kids[i].kind = "Text" THEN kids[i].value ELSE extractText(kids[i]))
         \o extractTextFrom(kids, i + 1)

extractText(node) == TrimSpace(extractTextFrom(node.kids, 1))

\* the state ParseContent starts the walk in
StartWalk(doc) ==
    [doc |-> doc, todo |-> <<doc>>, done |-> FALSE,
     Title |-> "", Description |-> "", Sections |-> EmptyMap, Images |-> <<>>,
     lists |-> <<>>,          \* the lists handed to parseClaimsList
     currentSection |-> "", sectionContent |-> "",
     descWrites |-> 0]        \* how often parsed.Description was assigned

\* what ast.Walk enters next
Entering(kind) ==
    /\ pc = "walk"
    /\ ~walk.done
    /\ walk.todo # <<>>
    /\ walk.todo[1].kind = kind

\* the nodes still to enter when the callback answered WalkContinue
Continue == walk.todo[1].kids \o Tail(walk.todo)

\* the nodes still to enter when the callback answered WalkSkipChildren
SkipChildren == Tail(walk.todo)

walkFrame == <<pc, config, generators, content, fromContent, cred, formatNames, outputs,
               ident, mdFiles, batchPos, written, credentials, batchRet, call, mu, threads>>

\* case *ast.Heading
WalkHeading ==
    /\ Entering("Heading")
    /\ walk' = [walk EXCEPT
           !.Sections = IF walk.currentSection # ""
                        THEN Put(@, walk.currentSection, TrimSpace(walk.sectionContent))
                        ELSE @,
           !.sectionContent = IF walk.currentSection # "" THEN "" ELSE @,
           !.Title = IF walk.todo[1].Level = 1 /\ walk.Title = ""
                     THEN extractText(walk.todo[1]) ELSE @,
           !.currentSection = IF walk.todo[1].Level = 1 /\ walk.Title = ""
                              THEN "_title" ELSE extractText(walk.todo[1]),
           !.todo = Continue]
    /\ UNCHANGED walkFrame

\* case *ast.Paragraph
WalkParagraph ==
    /\ Entering("Paragraph")
    /\ IF walk.currentSection = "_title" /\ walk.Description = ""
       THEN walk' = [walk EXCEPT !.Description = extractText(walk.todo[1]),
                                 !.descWrites = @ + 1,
                                 !.todo = Continue]
       ELSE walk' = [walk EXCEPT !.sectionContent = @ \o extractText(walk.todo[1]) \o "\n\n",
                                 !.todo = Continue]
    /\ UNCHANGED walkFrame

\* case *ast.Image (the absolute path, joined from the directory of the
\* document, is not part of the model of an image reference)
WalkImage ==
    /\ Entering("Image")
    /\ walk' = [walk EXCEPT
           !.Images = Append(@, [Path |-> walk.todo[1].Destination,
                                 AltText |-> extractText(walk.todo[1])]),
           !.todo = Continue]
    /\ UNCHANGED walkFrame

\* a walk that enters the children of a list like those of any other node
WalkList_Continue ==
    /\ Entering("List")
    /\ walk' = [walk EXCEPT !.lists = Append(@, walk.todo[1]), !.todo = Continue]
    /\ UNCHANGED walkFrame

\* case *ast.List: parseClaimsList reads the list, the walk does not enter it
WalkList ==
    /\ Entering("List")
    /\ walk' = [walk EXCEPT !.lists = Append(@, walk.todo[1]), !.todo = SkipChildren]
    /\ UNCHANGED walkFrame

\* every other node: no case of the switch
WalkOther ==
    /\ \E kind \in {"Document", "Blockquote", "Text", "ListItem"} : Entering(kind)
    /\ walk' = [walk EXCEPT !.todo = Continue]
    /\ UNCHANGED walkFrame

\* after the walk: the last section is saved
WalkEnd ==
    /\ pc = "walk"
    /\ ~walk.done
    /\ walk.todo = <<>>
    /\ walk' = [walk EXCEPT
           !.Sections = IF walk.currentSection # "" /\ Len(walk.sectionContent) > 0
                        THEN Put(@, walk.currentSection, TrimSpace(walk.sectionContent))
                        ELSE @,
           !.done = TRUE]
    /\ UNCHANGED walkFrame

\* the blocks documents are made of
PreambleText == "Draft of May."
FirstText == "A credential for natural persons."
SecondText == "Issued by the member states."
ItemText == "given_name: First name"
NestedText == "de-DE: Vorname"
QuotedItemText == "family_name: Last name"

ClaimsList ==
    List(<<ListItem(<<Paragraph(<<Text(ItemText)>>),
                      List(<<ListItem(<<Paragraph(<<Text(NestedText)>>)>>)>>)>>)>>)

Blocks ==
    { Heading(1, "Identity Credential"),
      Heading(1, "Second Title"),
      Heading(1, ""),
      Heading(2, "Claims"),
      Paragraph(<<Text(PreambleText)>>),
      Paragraph(<<Text(FirstText)>>),
      Paragraph(<<Text(SecondText)>>),
      Paragraph(<<Image("logo.png", "")>>),
      ClaimsList,
      Blockquote(<<List(<<ListItem(<<Paragraph(<<Text(QuotedItemText)>>)>>)>>)>>) }

RECURSIVE BlockSeqs(_)
BlockSeqs(n) ==
    IF n = 0 THEN {<<>>}
    ELSE BlockSeqs(n - 1) \cup {Append(s, b) : s \in BlockSeqs(n - 1), b \in Blocks}

Documents == {Document(s) : s \in BlockSeqs(MaxNodes)}

InitWalk ==
    /\ pc = "walk"
    /\ config \in {BatchConfig("https://registry.siros.org", "creds/pid.md")}
    /\ generators = {}
    /\ content = NoContent
    /\ fromContent = FALSE
    /\ cred = EmptyModel
    /\ formatNames = <<>>
    /\ outputs = NoOutputs
    /\ ident = NoIdent
    /\ mdFiles = <<>>
    /\ batchPos = 0
    /\ written = {}
    /\ credentials = <<>>
    /\ batchRet = "idle"
    /\ call = NoCall
    /\ walk \in {StartWalk(doc) : doc \in Documents}
    /\ mu = NoLock
    /\ threads = NoThreads

NextWalk ==
    \/ WalkHeading \/ WalkParagraph \/ WalkImage
    \/ WalkList \/ WalkOther \/ WalkEnd

SpecWalk == InitWalk /\ [][NextWalk]_vars

(***************************************************************************)
(* formats: goroutines calling one Registry.  Registry.mu is a             *)
(* sync.RWMutex: Lock waits until no goroutine reads or writes, and from   *)
(* the moment it is called no new reader is let in; RLock waits while a    *)
(* writer holds the lock or waits for it.  The deferred Unlock and RUnlock *)
(* run when the method returns, with the access that precedes them.  A     *)
(* goroutine makes one call; ParseFormats makes its calls of Get and List  *)
(* one after the other, each taking the lock for itself.                   *)
(***************************************************************************)
NoRet == [ok |-> FALSE, names |-> <<>>, err |-> "", available |-> <<>>]

\* ParseFormats between two calls of the registry: the parts without a name
\* are skipped; the next name is looked up, or the list is returned
RECURSIVE ParseFormatsNext(_, _, _)
ParseFormatsNext(th, rest, formats) ==
    IF rest = <<>>
    THEN [th EXCEPT !.pc = "done", !.rest = <<>>, !.formats = formats,
                    !.ret = IF Len(formats) = 0
                            THEN [NoRet EXCEPT !.err = "no valid formats specified"]
                            ELSE [NoRet EXCEPT !.names = formats]]
    ELSE IF TrimSpace(Head(rest)) = ""
    THEN ParseFormatsNext(th, Tail(rest), formats)
    ELSE [th EXCEPT !.fn = "Get", !.name = TrimSpace(Head(rest)), !.rest = Tail(rest),
                    !.formats = formats, !.pc = "RLock"]

\* a goroutine at the start of its call: at the first lock the call takes
Goroutine(op, arg, fn, at) ==
    [op |-> op, arg |-> arg, fn |-> fn, name |-> arg, rest |-> <<>>, formats |-> <<>>,
     pc |-> at, ret |-> NoRet]

StartOf(c) ==
    IF c.op = "Register" THEN Goroutine(c.op, c.arg, "Register", "Lock")
    ELSE IF c.op # "ParseFormats" THEN Goroutine(c.op, c.arg, c.op, "RLock")
    ELSE IF TrimSpace(c.arg) \in {"", "all"}
    THEN [Goroutine(c.op, c.arg, "List", "RLock") EXCEPT !.name = ""]
    ELSE ParseFormatsNext(Goroutine(c.op, c.arg, "Get", "RLock"),
                          Split(TrimSpace(c.arg), ","), <<>>)

\* what Get and List return to the goroutine, and where it goes on
AfterGet(th, ok) ==
    IF th.op = "Get" THEN [th EXCEPT !.pc = "done", !.ret = [NoRet EXCEPT !.ok = ok]]
    ELSE IF ok THEN ParseFormatsNext(th, th.rest, Append(th.formats, th.name))
    ELSE [th EXCEPT !.fn = "List", !.pc = "RLock"]

AfterList(th, names) ==
    IF th.op = "List" \/ th.name = ""
    THEN [th EXCEPT !.pc = "done", !.ret = [NoRet EXCEPT !.names = names]]
    ELSE [th EXCEPT !.pc = "done",
                    !.ret = [NoRet EXCEPT !.available = names,
                                          !.err = "unknown format: " \o th.name
                                                  \o " (available: " \o Join(names, ", ") \o ")"]]

registryFrame == <<pc, config, content, fromContent, cred, formatNames, outputs, ident,
                   mdFiles, batchPos, written, credentials, batchRet, call, walk>>

At(t, where) == pc = "registry" /\ t \in DOMAIN threads /\ threads[t].pc = where

\* r.mu.Lock() is called: the writer is announced
RegistryLock(t) ==
    /\ At(t, "Lock")
    /\ mu' = [mu EXCEPT !.waiting = @ \cup {t}]
    /\ threads' = [threads EXCEPT ![t].pc = "waiting"]
    /\ UNCHANGED <<registryFrame, generators>>

\* r.mu.Lock() returns
RegistryLocked(t) ==
    /\ At(t, "waiting")
    /\ mu.writer = 0
    /\ mu.readers = {}
    /\ mu' = [mu EXCEPT !.writer = t, !.waiting = @ \ {t}]
    /\ threads' = [threads EXCEPT ![t].pc = "writing"]
    /\ UNCHANGED <<registryFrame, generators>>

\* Register: r.generators[g.Name()] = g, and the deferred Unlock
RegistryStore(t) ==
    /\ At(t, "writing")
    /\ generators' = generators \cup {threads[t].name}
    /\ mu' = [mu EXCEPT !.writer = 0]
    /\ threads' = [threads EXCEPT ![t].pc = "done"]
    /\ UNCHANGED registryFrame

\* an RLock that does not wait for the writer that holds the lock
RegistryRLock_IgnoreWriter(t) ==
    /\ At(t, "RLock")
    /\ mu.waiting = {}
    /\ mu' = [mu EXCEPT !.readers = @ \cup {t}]
    /\ threads' = [threads EXCEPT ![t].pc = "reading"]
    /\ UNCHANGED <<registryFrame, generators>>

\* r.mu.RLock() returns
RegistryRLock(t) ==
    /\ At(t, "RLock")
    /\ mu.writer = 0
    /\ mu.waiting = {}
    /\ mu' = [mu EXCEPT !.readers = @ \cup {t}]
    /\ threads' = [threads EXCEPT ![t].pc = "reading"]
    /\ UNCHANGED <<registryFrame, generators>>

\* Get, List, All: the map is read, and the deferred RUnlock
RegistryRead(t) ==
    /\ At(t, "reading")
    /\ \/ /\ threads[t].fn = "Get"
          /\ threads' = [threads EXCEPT
                 ![t] = AfterGet(threads[t], threads[t].name \in generators)]
       \/ /\ threads[t].fn = "List"
          /\ threads' = [threads EXCEPT
                 ![t] = AfterList(threads[t], RegistryList(generators))]
       \/ /\ threads[t].fn = "All"
          /\ \E order \in Perms(generators) :
               threads' = [threads EXCEPT
                   ![t] = [@ EXCEPT !.pc = "done", !.ret = [NoRet EXCEPT !.names = order]]]
    /\ mu' = [mu EXCEPT !.readers = @ \ {t}]
    /\ UNCHANGED <<registryFrame, generators>>

RegistryStep(t) ==
    \/ RegistryLock(t) \/ RegistryLocked(t) \/ RegistryStore(t)
    \/ RegistryRLock(t) \/ RegistryRead(t)

\* the calls the goroutines make; the generator of vctm is registered
RegistryCalls ==
    << [op |-> "Register", arg |-> "mddl"],
       [op |-> "Get", arg |-> "mddl"],
       [op |-> "List", arg |-> ""],
       [op |-> "All", arg |-> ""],
       [op |-> "ParseFormats", arg |-> "mddl"],
       [op |-> "ParseFormats", arg |-> "vctm, ,mddl"],
       [op |-> "ParseFormats", arg |-> " all "] >>

\* the goroutines started: any calls, up to their order
Goroutines ==
    { [t \in DOMAIN s |-> StartOf(RegistryCalls[s[t]])] :
        s \in { s \in UNION {[1..n -> 1..Len(RegistryCalls)] : n \in 1..MaxThreads} :
                  \A i, j \in DOMAIN s : i < j => s[i] <= s[j] } }

InitRegistry ==
    /\ pc = "registry"
    /\ config \in {BatchConfig("https://registry.siros.org", "creds/pid.md")}
    /\ generators = {"vctm"}
    /\ content = NoContent
    /\ fromContent = FALSE
    /\ cred = EmptyModel
    /\ formatNames = <<>>
    /\ outputs = NoOutputs
    /\ ident = NoIdent
    /\ mdFiles = <<>>
    /\ batchPos = 0
    /\ written = {}
    /\ credentials = <<>>
    /\ batchRet = "idle"
    /\ call = NoCall
    /\ walk = NoWalk
    /\ mu = NoLock
    /\ threads \in Goroutines

NextRegistry ==
    \E t \in 1..MaxThreads :
        \/ RegistryLock(t) \/ RegistryLocked(t) \/ RegistryStore(t)
        \/ RegistryRLock(t) \/ RegistryRead(t)

\* the Go scheduler runs every goroutine that can take a step
SpecRegistry ==
    InitRegistry /\ [][NextRegistry]_vars /\ \A t \in 1..MaxThreads : WF_vars(RegistryStep(t))

(***************************************************************************)
(* cmd: runGenerate.  The configuration is merged and validated; then the  *)
(* formats are resolved, the document is parsed, the outputs are generated *)
(* and, one step of the loop each, written.                                *)
(***************************************************************************)
RunConfig(baseURL, formatStr, outputFile, outputDir) ==
    [BaseURL |-> baseURL, Language |-> "en-US",
     InputFile |-> "creds/pid.md", OutputFile |-> outputFile, OutputDir |-> outputDir,
     Formats |-> formatStr]

\* Generator.FileExtension of the three generators
FileExtension(name) ==
    CASE name = "vctm" -> "vctm.json"
      [] name = "mddl" -> "mdoc.json"
      [] name = "w3c" -> "vc.json"

\* parser.OutputFileName
OutputFileName(registered, baseName, formatName) ==
    IF formatName \notin registered THEN baseName \o "." \o formatName
    ELSE baseName \o "." \o FileExtension(formatName)

\* filepath.Dir and filepath.Join of relative paths without "." and ".."
FilepathDir(path) ==
    IF LastIndex(path, "/") = 0 THEN "." ELSE SubSeq(path, 1, LastIndex(path, "/") - 1)

FilepathJoin(dir, name) == IF dir = "." THEN name ELSE dir \o "/" \o name

\* the path runGenerate writes the output of a format to
OutputPath(cfg, registered, names, formatName) ==
    IF Len(names) = 1 /\ cfg.OutputFile # "" THEN cfg.OutputFile
    ELSE FilepathJoin(IF cfg.OutputDir = "" THEN FilepathDir(cfg.InputFile) ELSE cfg.OutputDir,
                      OutputFileName(registered,
                                     TrimSuffix(Base(cfg.InputFile), Ext(Base(cfg.InputFile))),
                                     formatName))

runFrame == <<generators, ident, mdFiles, batchPos, credentials, call, otherVars>>

\* formats.ParseFormats(cfg.Formats)
RunParseFormats ==
    /\ pc = "run"
    /\ IF ParseFormats(generators, config.Formats).err # ""
       THEN /\ batchRet' = ParseFormats(generators, config.Formats).err
            /\ pc' = "returned"
            /\ UNCHANGED formatNames
       ELSE /\ formatNames' = ParseFormats(generators, config.Formats).names
            /\ pc' = "formats"
            /\ UNCHANGED batchRet
    /\ UNCHANGED <<config, content, fromContent, cred, outputs, written>>
    /\ UNCHANGED runFrame

\* p.ParseToCredential(cfg.InputFile): the file cannot be read, or holds a
\* document
RunParseToCredential ==
    /\ pc = "formats"
    /\ \/ /\ batchRet' = "failed to parse markdown"
          /\ pc' = "returned"
          /\ UNCHANGED <<content, fromContent, cred>>
       \/ /\ \E c \in Contents :
               /\ content' = c
               /\ \E order \in Perms(DOMAIN ParseContent(c).Claims),
                       localeOrder \in Perms(LocalesOf(ParseContent(c))) :
                    cred' = ToCredential(config, ParseContent(c), order, localeOrder)
          /\ fromContent' = TRUE
          /\ pc' = "parsed"
          /\ UNCHANGED batchRet
    /\ UNCHANGED <<config, formatNames, outputs, written>>
    /\ UNCHANGED runFrame

\* a Generate that leaves out the formats whose generator fails
RunGenerateOutputs_SkipFailed ==
    /\ pc = "parsed"
    /\ outputs' = [results |->
                       [n \in {m \in {formatNames[i] : i \in 1..Len(formatNames)} :
                                  GeneratorGenerate(m, cred, config).err = ""} |->
                           GeneratorGenerate(n, cred, config).doc],
                   err |-> ""]
    /\ pc' = "write"
    /\ UNCHANGED <<config, content, fromContent, cred, formatNames, written, batchRet>>
    /\ UNCHANGED runFrame

\* outputs, err := p.Generate(cred, formatNames)
RunGenerateOutputs ==
    /\ pc = "parsed"
    /\ outputs' = ParserGenerate(generators, cred, config, formatNames)
    /\ IF ParserGenerate(generators, cred, config, formatNames).err # ""
       THEN /\ batchRet' = "failed to generate output"
            /\ pc' = "returned"
       ELSE /\ pc' = "write"
            /\ UNCHANGED batchRet
    /\ UNCHANGED <<config, content, fromContent, cred, formatNames, written>>
    /\ UNCHANGED runFrame

\* one turn of `for formatName, data := range outputs`, in the order the
\* map yields; MkdirAll or WriteFile may fail
RunWriteOutput ==
    /\ pc = "write"
    /\ \E formatName \in DOMAIN outputs.results \ {w[1] : w \in written} :
         \/ /\ batchRet' = "failed to create output directory"
            /\ pc' = "returned"
            /\ UNCHANGED written
         \/ /\ batchRet' = "failed to write " \o formatName \o " output"
            /\ pc' = "returned"
            /\ UNCHANGED written
         \/ /\ written' = written \cup
                  {<<formatName, OutputPath(config, generators, formatNames, formatName)>>}
            /\ UNCHANGED <<pc, batchRet>>
    /\ UNCHANGED <<config, content, fromContent, cred, formatNames, outputs>>
    /\ UNCHANGED runFrame

\* after the loop: return nil
RunReturn ==
    /\ pc = "write"
    /\ DOMAIN outputs.results = {w[1] : w \in written}
    /\ batchRet' = "ok"
    /\ pc' = "returned"
    /\ UNCHANGED <<config, content, fromContent, cred, formatNames, outputs, written>>
    /\ UNCHANGED runFrame

RunConfigs ==
    {RunConfig(b, f, o, d) : b \in {"", "https://registry.siros.org"},
                             f \in {"vctm", "all", "w3c, mddl", "vctm,vctm", "jsonld"},
                             o \in {"", "out/pid.json"}, d \in {"", "dist"}}

InitRun ==
    /\ pc = "run"
    /\ config \in RunConfigs
    /\ generators = RegisteredNames
    /\ content = NoContent
    /\ fromContent = FALSE
    /\ cred = EmptyModel
    /\ formatNames = <<>>
    /\ outputs = NoOutputs
    /\ ident = NoIdent
    /\ mdFiles = <<>>
    /\ batchPos = 0
    /\ written = {}
    /\ credentials = <<>>
    /\ batchRet = "running"
    /\ call = NoCall
    /\ walk = NoWalk
    /\ mu = NoLock
    /\ threads = NoThreads

NextRun ==
    \/ RunParseFormats \/ RunParseToCredential \/ RunGenerateOutputs
    \/ RunWriteOutput \/ RunReturn

SpecRun == InitRun /\ [][NextRun]_vars

(***************************************************************************)
(* Properties.                                                             *)
(***************************************************************************)
\* the names of the list that are registered and whose generator succeeds
\* on the model of the current state
Succeeds(name) ==
    name \in generators /\ GeneratorGenerate(name, cred, config).err = ""

\* C1: when Parser.Generate is asked for several formats and one generator
\* fails, the outputs of every other requested, registered format are still
\* produced and returned.
C1_OtherFormatsReturned ==
    pc = "generated" =>
        \A i \in 1..Len(formatNames) :
            Succeeds(formatNames[i]) =>
                /\ Has(outputs.results, formatNames[i])
                /\ outputs.results[formatNames[i]]
                     = GeneratorGenerate(formatNames[i], cred, config).doc

\* the file at position i of a batch fails: it cannot be read, or one of the
\* requested generators returns an error for it
BatchFileFails(i) ==
    \/ ~mdFiles[i].readable
    \/ \E order \in Perms(DOMAIN ParseContent(mdFiles[i].content).Claims),
          localeOrder \in Perms(LocalesOf(ParseContent(mdFiles[i].content))) :
         LET cfg == BatchConfig(config.BaseURL, BatchPaths[i])
         IN  ParserGenerate(generators,
                            ToCredential(cfg, ParseContent(mdFiles[i].content), order,
                                         localeOrder),
                            cfg, formatNames).err # ""

\* C2: in a batch run a parse or generation failure for document di does not
\* stop the batch: when runBatch has returned, every later document that
\* does not fail itself has its outputs written.
C2_BatchContinuesAfterFailure ==
    batchRet \notin {"idle", "running"} =>
        \A i, j \in 1..Len(mdFiles) :
            (i < j /\ BatchFileFails(i) /\ ~BatchFileFails(j)) =>
                \A k \in 1..Len(formatNames) : <<j, formatNames[k]>> \in written

\* C3: no generated document carries an empty scheme-required identifier:
\* an SD-JWT VC document has a non-empty vct and an mdoc document a non-empty
\* doctype (a generator that resolves the empty string returns an error).
C3_NoEmptyIdentifier ==
    pc = "generated" =>
        /\ Has(outputs.results, "vctm") => outputs.results["vctm"]["vct"] # ""
        /\ Has(outputs.results, "mddl") => outputs.results["mddl"]["doctype"] # ""

\* the key the precedence (a) per-claim mapping, (b) bulk table, (c) own name
\* resolves for a claim
ResolvedClaimName(parsed, claim, format) ==
    IF Has(claim.FormatMappings, format) THEN claim.FormatMappings[format]
    ELSE IF Has(parsed.ClaimMappings, format)
            /\ Has(parsed.ClaimMappings[format], claim.Name)
         THEN parsed.ClaimMappings[format][claim.Name]
    ELSE claim.Name

W3cSubject == outputs.results["w3c"]["credentialSchema"]["properties"]["credentialSubject"]

\* C4: the emitted claim key is the per-claim mapping if present, else the
\* bulk table's entry if present, else the claim's name: the keys of the
\* W3C properties and of the mdoc namespace are exactly the keys so resolved.
C4_PerClaimMappingFirst ==
    (pc = "generated" /\ Len(cred.Claims) > 0) =>
        /\ Has(outputs.results, "w3c") =>
             DOMAIN W3cSubject["properties"]
               = {ResolvedClaimName(cred, cred.Claims[i], "w3c") : i \in 1..Len(cred.Claims)}
        /\ Has(outputs.results, "mddl") =>
             \A ns \in DOMAIN outputs.results["mddl"]["claims"] :
                DOMAIN outputs.results["mddl"]["claims"][ns]
                  = {ResolvedClaimName(cred, cred.Claims[i], "mddl") :
                       i \in 1..Len(cred.Claims)}

\* the non-empty string stored under key in the override block of format,
\* "" when there is none
OverrideString(parsed, format, key) ==
    IF /\ Has(parsed.FormatOverrides, format)
       /\ Has(parsed.FormatOverrides[format], key)
       /\ parsed.FormatOverrides[format][key].t = "string"
    THEN parsed.FormatOverrides[format][key].s
    ELSE ""

\* host segments of a base URL: scheme and trailing slash removed, split on "."
HostSegments(baseURL) ==
    Split(TrimSuffix(TrimPrefix(TrimPrefix(baseURL, "https://"), "http://"), "/"), ".")

\* id is segs in reverse order, then "credentials", then the short id
IsReverseDomainOf(id, segs, short) ==
    /\ HasSuffix(id, ".credentials." \o short)
    /\ LET got == Split(TrimSuffix(id, ".credentials." \o short), ".")
       IN  /\ Len(got) = Len(segs)
           /\ \A k \in 1..Len(segs) : got[k] = segs[Len(segs) + 1 - k]

\* C5: the mdoc DeriveIdentifier returns the explicit DocType when non-empty;
\* otherwise the non-empty string doctype of FormatOverrides["mddl"];
\* otherwise, with base URL and id non-empty, the reverse-domain derivation;
\* otherwise the empty string.
C5_MddlIdentifierPrecedence ==
    (pc = "derived" /\ ident.format = "mddl") =>
        LET o == OverrideString(cred, "mddl", "doctype")
        IN  /\ cred.DocType # "" => ident.id = cred.DocType
            /\ (cred.DocType = "" /\ o # "") => ident.id = o
            /\ (cred.DocType = "" /\ o = "" /\ config.BaseURL # "" /\ cred.ID # "") =>
                 IsReverseDomainOf(ident.id, HostSegments(config.BaseURL), cred.ID)
            /\ (cred.DocType = "" /\ o = "" /\ (config.BaseURL = "" \/ cred.ID = "")) =>
                 ident.id = ""

\* C5 witness: the override decides although the derivation is available too
C5_Witness ==
    /\ pc = "derived" /\ ident.format = "mddl"
    /\ cred.DocType = ""
    /\ OverrideString(cred, "mddl", "doctype") # ""
    /\ config.BaseURL # "" /\ cred.ID # ""
    /\ ident.id = OverrideString(cred, "mddl", "doctype")

\* C6: the SD-JWT VC generator follows the same precedence: without an
\* explicit vct and with a non-empty vct under FormatOverrides["vctm"], both
\* DeriveIdentifier and the emitted vct equal the override.
C6_VctmOverrideUsed ==
    (cred.VCT = "" /\ OverrideString(cred, "vctm", "vct") # "") =>
        /\ (pc = "derived" /\ ident.format = "vctm") =>
             ident.id = OverrideString(cred, "vctm", "vct")
        /\ (pc = "generated" /\ Has(outputs.results, "vctm")) =>
             outputs.results["vctm"]["vct"] = OverrideString(cred, "vctm", "vct")

\* the decoded front-matter block a document was written with
DecodedFrontMatter(doc) ==
    IF \E b \in DOMAIN YamlGeneric : doc.text = Fenced(b)
    THEN YamlGeneric[CHOOSE b \in DOMAIN YamlGeneric : doc.text = Fenced(b)]
    ELSE EmptyMap

\* the doctype the front matter gives under formats.mddl, "" when none
FrontMatterMddlDoctype(fm) ==
    IF /\ Has(fm, "formats") /\ fm["formats"].t = "map"
       /\ Has(fm["formats"].m, "mddl") /\ fm["formats"].m["mddl"].t = "map"
       /\ Has(fm["formats"].m["mddl"].m, "doctype")
       /\ fm["formats"].m["mddl"].m["doctype"].t = "string"
    THEN fm["formats"].m["mddl"].m["doctype"].s
    ELSE ""

\* C7: for a document whose front matter has no doctype key but has
\* formats: {mddl: {doctype: D}}, ParseContentToCredential followed by the
\* mddl generator yields doctype D.
C7_FrontMatterOverrideReachesGenerator ==
    (fromContent /\ pc \in {"derived", "generated"}
       /\ ~Has(DecodedFrontMatter(content), "doctype")
       /\ FrontMatterMddlDoctype(DecodedFrontMatter(content)) # "") =>
        /\ (pc = "derived" /\ ident.format = "mddl") =>
             ident.id = FrontMatterMddlDoctype(DecodedFrontMatter(content))
        /\ (pc = "generated" /\ formatNames = <<"mddl">>) =>
             /\ Has(outputs.results, "mddl")
             /\ outputs.results["mddl"]["doctype"]
                  = FrontMatterMddlDoctype(DecodedFrontMatter(content))

\* C8: for every claim of the model the SD-JWT VC claims[] entry carries the
\* path and, whenever set, mandatory, sd and svg_id; display entries use the
\* key locale.
C8_VctmClaimEntryComplete ==
    (pc = "generated" /\ Has(outputs.results, "vctm") /\ Len(cred.Claims) > 0) =>
        LET entries == outputs.results["vctm"]["claims"]
        IN  /\ Len(entries) = Len(cred.Claims)
            /\ \A i \in 1..Len(cred.Claims) :
                 LET claim == cred.Claims[i]
                     entry == entries[i]
                 IN  /\ entry["path"] = claim.Path
                     /\ claim.Mandatory =>
                          (Has(entry, "mandatory") /\ entry["mandatory"] = TRUE)
                     /\ claim.SD # "" => (Has(entry, "sd") /\ entry["sd"] = claim.SD)
                     /\ claim.SvgId # "" =>
                          (Has(entry, "svg_id") /\ entry["svg_id"] = claim.SvgId)
                     /\ Has(entry, "display") =>
                          \A d \in 1..Len(entry["display"]) :
                              Has(entry["display"][d], "locale")

\* the emitted W3C names of the mandatory claims, in claim-list order
RECURSIVE MandatoryNames(_, _)
MandatoryNames(parsed, i) ==
    IF i > Len(parsed.Claims) THEN <<>>
    ELSE (IF parsed.Claims[i].Mandatory
          THEN <<EmittedClaimName(parsed, parsed.Claims[i], "w3c")>> ELSE <<>>)
         \o MandatoryNames(parsed, i + 1)

W3cRequired == IF Has(W3cSubject, "required") THEN W3cSubject["required"] ELSE <<>>

\* C9: credentialSubject.required lists exactly the emitted names of the
\* mandatory claims in claim-list order; a non-mandatory claim contributes
\* no entry (its name is in required only when a mandatory claim is emitted
\* under the same name); every entry is a key of properties.
C9_RequiredIsMandatoryInOrder ==
    (pc = "generated" /\ Has(outputs.results, "w3c") /\ Len(cred.Claims) > 0) =>
        /\ W3cRequired = MandatoryNames(cred, 1)
        /\ Len(W3cRequired)
             = Cardinality({i \in 1..Len(cred.Claims) : cred.Claims[i].Mandatory})
        /\ \A i \in 1..Len(cred.Claims) :
             (/\ ~cred.Claims[i].Mandatory
              /\ \A j \in 1..Len(cred.Claims) :
                   cred.Claims[j].Mandatory =>
                     EmittedClaimName(cred, cred.Claims[j], "w3c")
                       # EmittedClaimName(cred, cred.Claims[i], "w3c"))
             => ~Contains(W3cRequired, EmittedClaimName(cred, cred.Claims[i], "w3c"))
        /\ \A k \in 1..Len(W3cRequired) : W3cRequired[k] \in DOMAIN W3cSubject["properties"]

\* C9 witness: a mandatory claim emitted under a mapped name after a
\* non-mandatory one
C9_Witness ==
    /\ pc = "generated" /\ Has(outputs.results, "w3c")
    /\ Len(cred.Claims) = 2
    /\ ~cred.Claims[1].Mandatory /\ cred.Claims[2].Mandatory
    /\ W3cRequired = <<"dateOfBirth">>

\* C10: the first element of the emitted W3C type array is
\* VerifiableCredential for every model, and name "Person Identification
\* Data" without explicit type gives [VerifiableCredential,
\* PersonIdentificationData].
C10_BaseTypeFirst ==
    (pc = "generated" /\ Has(outputs.results, "w3c")) =>
        /\ outputs.results["w3c"]["type"][1] = "VerifiableCredential"
        /\ (/\ cred.Name = "Person Identification Data"
            /\ Len(cred.W3CTypes) = 0
            /\ ~Has(cred.FormatOverrides, "w3c")) =>
             outputs.results["w3c"]["type"]
               = <<"VerifiableCredential", "PersonIdentificationData">>

\* C11: without explicit or overridden doctype, with a base URL
\* scheme://s1.s2.....sn (a trailing slash allowed) and a non-empty id, the
\* mdoc doctype is sn.....s2.s1.credentials.<id>; https://registry.siros.org
\* with id pid gives org.siros.registry.credentials.pid; the namespace the
\* claims are grouped under equals that doctype when no namespace is given
\* explicitly or by override.
C11_ReverseDomainDoctype ==
    (/\ cred.DocType = "" /\ OverrideString(cred, "mddl", "doctype") = ""
     /\ config.BaseURL # "" /\ cred.ID # "") =>
        LET expected ==
              CASE config.BaseURL = "https://registry.siros.org" ->
                     "org.siros.registry.credentials." \o cred.ID
                [] config.BaseURL = "http://a.example/" ->
                     "example.a.credentials." \o cred.ID
        IN  /\ (pc = "derived" /\ ident.format = "mddl") => ident.id = expected
            /\ (pc = "generated" /\ formatNames = <<"mddl">>) =>
                 /\ Has(outputs.results, "mddl")
                 /\ outputs.results["mddl"]["doctype"] = expected
                 /\ (/\ cred.Namespace = ""
                     /\ OverrideString(cred, "mddl", "namespace") = ""
                     /\ Len(cred.Claims) > 0) =>
                      DOMAIN outputs.results["mddl"]["claims"] = {expected}

\* C11 witness: the documented example, with claims under the derived
\* namespace
C11_Witness ==
    /\ pc = "generated" /\ Has(outputs.results, "mddl")
    /\ config.BaseURL = "https://registry.siros.org" /\ cred.ID = "pid"
    /\ cred.DocType = "" /\ cred.Namespace = "" /\ cred.FormatOverrides = EmptyMap
    /\ outputs.results["mddl"]["doctype"] = "org.siros.registry.credentials.pid"
    /\ Has(outputs.results["mddl"], "claims")
    /\ DOMAIN outputs.results["mddl"]["claims"] = {"org.siros.registry.credentials.pid"}

\* C14: ParseFormats fails with a "no formats" error and returns no name
\* list whenever its input is empty after trimming white space.
C14_EmptyInputFails ==
    (call.fn = "ParseFormats" /\ call.reg = RegisteredNames
       /\ TrimSpace(call.arg) = "") =>
        /\ call.ret.err # ""
        /\ call.ret.names = <<>>

\* the comma-separated names of a format string, trimmed, the empty ones
\* dropped
RequestedNames(formatStr) ==
    SelectSeq([i \in 1..Len(Split(formatStr, ",")) |->
                  TrimSpace(Split(formatStr, ",")[i])],
              LAMBDA n : n # "")

\* the text between "(available: " and the closing parenthesis
AvailableIn(err) ==
    LET i == Index(err, "(available: ")
    IN  SubSeq(err, i + Len("(available: "), Len(err) - 1)

\* C15: on a list in which a trimmed, non-empty name is not registered,
\* ParseFormats returns an error and no name list, and the error enumerates
\* exactly the names registered at that moment; when every name is
\* registered it returns the trimmed names in request order.
C15_UnknownFormatFails ==
    (/\ call.fn = "ParseFormats"
     /\ TrimSpace(call.arg) \notin {"", "all"}
     /\ Len(RequestedNames(call.arg)) > 0) =>
        LET req == RequestedNames(call.arg)
        IN  IF \E i \in 1..Len(req) : req[i] \notin call.reg
            THEN /\ call.ret.names = <<>>
                 /\ HasPrefix(call.ret.err, "unknown format: ")
                 /\ HasSuffix(call.ret.err, ")")
                 /\ {n \in FormatNames :
                       \E k \in 1..Len(Split(AvailableIn(call.ret.err), ", ")) :
                           Split(AvailableIn(call.ret.err), ", ")[k] = n}
                      = call.reg
                 /\ Len(Split(AvailableIn(call.ret.err), ", "))
                      = IF call.reg = {} THEN 1 ELSE Cardinality(call.reg)
            ELSE /\ call.ret.err = ""
                 /\ call.ret.names = req

\* C15 witness: an unregistered name after a registered one, two generators
\* registered
C15_Witness ==
    /\ call.fn = "ParseFormats" /\ call.arg = "vctm,jsonld"
    /\ call.reg = {"vctm", "mddl"}
    /\ call.ret.names = <<>>
    /\ call.ret.err = "unknown format: jsonld (available: mddl, vctm)"

\* the flags of all bracket groups of an item
RECURSIVE FlagsOf(_)
FlagsOf(groups) ==
    IF Len(groups) = 0 THEN <<>> ELSE Head(groups) \o FlagsOf(Tail(groups))

\* the key of a flag key=value in lower case, and its value as written
FlagKey(flag) ==
    IF Index(flag, "=") = 0 THEN "" ELSE ToLower(SubSeq(flag, 1, Index(flag, "=") - 1))
FlagValue(flag) == SubSeq(flag, Index(flag, "=") + 1, Len(flag))

C17_FlagKeyAnyCase ==
    call.fn = "parseClaimFromListItem" =>
        LET flags == FlagsOf(call.item.groups)
        IN  \A i \in 1..Len(flags) :
              /\ FlagKey(flags[i]) = "svg_id" =>
                   call.ret.claim.SvgId = FlagValue(flags[i])
              /\ FlagKey(flags[i]) = "sd" =>
                   ToLower(call.ret.claim.SD) = ToLower(FlagValue(flags[i]))

\* the locales of the display block a document was written with
DisplayLocalesWritten(doc) ==
    CASE doc.text = Fenced(YamlDisplay) -> {"de-DE", "fr-FR"}
      [] doc.text = Fenced(YamlDisplayDefault) -> {"en-US", "de-DE"}
      [] OTHER -> {}

\* C12: for a document with a title in the default language and a display
\* block of N locales in its front matter, the display list of the SD-JWT
\* output has exactly N+1 entries, the first is the entry of the default
\* locale (the language of the configuration), and the default locale occurs
\* exactly once.
C12_DisplayHasDefaultPlusLocales ==
    (fromContent /\ pc = "generated" /\ formatNames = <<"vctm">>
       /\ content.Title # "" /\ DisplayLocalesWritten(content) # {}) =>
        /\ Has(outputs.results, "vctm")
        /\ Has(outputs.results["vctm"], "display")
        /\ LET display == outputs.results["vctm"]["display"]
               defaults == {i \in 1..Len(display) :
                              /\ Has(display[i], "lang")
                              /\ display[i]["lang"] = config.Language}
           IN  /\ Len(display) = Cardinality(DisplayLocalesWritten(content)) + 1
               /\ 1 \in defaults
               /\ Cardinality(defaults) = 1

\* C13: in every display list of a claim that is emitted, when the list is
\* not empty its first entry is the one of the default locale (the language
\* of the configuration) and no locale occurs twice, also when the claim has
\* a nested localization line for the default locale.
C13_ClaimDisplayDefaultFirst ==
    call.fn = "ToVCTM" =>
        \A i \in 1..Len(call.ret.Claims) :
           LET display == call.ret.Claims[i].Display
           IN  Len(display) > 0 =>
                 /\ display[1].Locale = config.Language
                 /\ \A j, k \in 1..Len(display) :
                       display[j].Locale = display[k].Locale => j = k

\* C20: the path of every claim is its dotted name split on "."
\* (address.street gives address, street), in the path array of every
\* claims[] entry of the SD-JWT document.
C20_PathIsSplitName ==
    call.fn = "ToVCTM" =>
        \A i \in 1..Len(call.doc.tagged) :
           call.doc.tagged[i].name # "" =>
              \E j \in 1..Len(call.ret.Claims) :
                 call.ret.Claims[j].Path = Split(call.doc.tagged[i].name, ".")

\* C18: claim recognition is a filter.  ParseContent registers as claims
\* exactly the top-level list items whose first text block matches the claim
\* grammar; items that do not match, and nested items that do not match the
\* locale grammar, add nothing to the claims or to the localizations of a
\* claim, and never make ParseContent return an error.
C18_ClaimRecognitionIsFilter ==
    call.fn = "ParseContent" =>
        LET tagged == call.doc.tagged
            claims == call.ret.parsed.Claims
        IN  /\ call.ret.err = ""
            /\ DOMAIN claims = {tagged[i].name : i \in 1..Len(tagged)} \ {""}
            /\ \A i \in 1..Len(tagged) :
                  tagged[i].name # "" =>
                     DOMAIN claims[tagged[i].name].Localizations = tagged[i].locales

\* C18 witness: a list of an item without backquotes that has a nested
\* locale line, and of a claim whose nested lists mix locale lines with
\* other lines
C18_Witness ==
    /\ call.fn = "ParseContent"
    /\ Len(call.doc.tagged) = 2
    /\ call.doc.tagged[1].item.text = "given_name (string): no quotes around the name"
    /\ call.doc.tagged[2].item = NicknameItem
    /\ call.ret.err = ""
    /\ DOMAIN call.ret.parsed.Claims = {"nickname"}
    /\ DOMAIN call.ret.parsed.Claims["nickname"].Localizations = {"de-DE", "sv"}

\* the top-level keys of a front-matter block whose values are strings
StringKeys(block) ==
    CASE block = YamlVct -> {"vct"}
      [] block = YamlId -> {"id", "background_color"}
      [] block = YamlDoctype -> {"doctype"}
      [] block = YamlFormats -> {}
      [] block = YamlIdFormats -> {"id"}
      [] block = YamlDoctypeFormats -> {"doctype"}
      [] block = YamlDisplay -> {"id"}
      [] block = YamlDisplayDefault -> {"id"}
      [] block = YamlDisplayScalar -> {"id", "display"}

\* C19: extractFrontMatter never fails.  Content that does not begin with a
\* --- fence, content whose closing --- fence is missing and a fenced block
\* that is not decodable YAML all yield an empty metadata map and an empty
\* locale map; for a decodable block the metadata holds exactly the
\* top-level keys whose values are strings.
C19_FrontMatterNeverFails ==
    call.fn = "extractFrontMatter" =>
        /\ call.raw.kind \in {"nofence", "unclosed", "undecodable"} =>
              /\ call.ret.metadata = EmptyMap
              /\ call.ret.displayLocs = EmptyMap
        /\ call.raw.kind = "decodable" =>
              DOMAIN call.ret.metadata = StringKeys(call.raw.block)

\* whether a file of a tree is a markdown file the batch run is to convert
IsContentFile(p) ==
    /\ \E e \in {".md", ".MD", ".markdown"} : HasSuffix(p[Len(p)], e)
    /\ SubSeq(p[Len(p)], 1, 1) # "_"
    /\ \A i \in 1..(Len(p) - 1) :
         /\ SubSeq(p[i], 1, 1) # "."
         /\ p[i] \notin {"node_modules", "vendor"}

\* C30: findMarkdownFiles(dir) returns every file under dir with extension
\* .md or .markdown (any case) whose name does not start with _ and that
\* does not lie beneath a subdirectory that is hidden or named node_modules
\* or vendor, for every root dir, the default input directory "." included.
C30_FindsEveryMarkdownFile ==
    call.fn = "findMarkdownFiles" =>
        call.ret = {p \in call.tree : IsContentFile(p)}

\* whether a path ends in .svg, in a letter case of the images of the model
EndsInSvg(path) == \E e \in {".svg", ".SVG"} : HasSuffix(path, e)

\* the address an image is published at
PublishedAt(rendered, path) ==
    HasSuffix(rendered, IF HasPrefix(path, "./") THEN SubSeq(path, 3, Len(path)) ELSE path)

\* C21: in the SD-JWT rendering every image whose path ends in .svg (any
\* letter case) is emitted as an svg_templates entry and is never used as
\* the logo of the simple rendering; the logo is taken only from an image
\* that is no SVG file.
C21_SvgIsTemplateNeverLogo ==
    call.fn = "buildRendering" =>
        \A i \in 1..Len(call.images) :
           EndsInSvg(call.images[i].Path) =>
              /\ Has(call.ret, "svg_templates")
              /\ \E j \in 1..Len(call.ret["svg_templates"]) :
                    PublishedAt(call.ret["svg_templates"][j].URI, call.images[i].Path)
              /\ ~ /\ Has(call.ret, "simple")
                   /\ Has(call.ret["simple"], "logo")
                   /\ PublishedAt(call.ret["simple"]["logo"].URI, call.images[i].Path)

\* C23: the projection is deterministic.  Two runs of parse, ToCredential
\* and Generate on the same document bytes, configuration and registry
\* produce identical output for every format, the order of the claims array,
\* of the W3C required array and of the locale entries included.
C23_SameDocumentSameOutput ==
    pc = "again" => call.ret = outputs

\* the nodes below a node, and the nodes below the lists of a document
RECURSIVE Descendants(_)
Descendants(node) ==
    UNION {{node.kids[i]} \cup Descendants(node.kids[i]) : i \in 1..Len(node.kids)}

InsideLists(doc) ==
    UNION {Descendants(l) : l \in {n \in Descendants(doc) : n.kind = "List"}}

ListItemTexts == {ItemText, NestedText, QuotedItemText}

IsPartOf(text, s) == Index(s, text) > 0

TopBlocks == walk.doc.kids

HeadingBefore(i) ==
    LET H == {j \in 1..(i - 1) : TopBlocks[j].kind = "Heading"}
    IN  IF H = {} THEN 0 ELSE CHOOSE j \in H : \A h \in H : h <= j

\* the key a heading's section is stored under: its text, or the name of
\* the pseudo-section of the title
IsKeyOf(k, j) == k = extractText(TopBlocks[j]) \/ k = "_title"

IsOwnParagraph(i) ==
    /\ TopBlocks[i].kind = "Paragraph"
    /\ extractText(TopBlocks[i]) # ""

\* C27: after the walk the text stored for a section holds only paragraphs
\* that stand between the heading of that section and the next heading (a
\* paragraph before the first heading is in no section), and every heading
\* with a paragraph of its own is a key of the sections map.
C27_SectionsHoldOwnParagraphs ==
    (pc = "walk" /\ walk.done) =>
        /\ \A k \in DOMAIN walk.Sections : \A i \in 1..Len(TopBlocks) :
              (IsOwnParagraph(i) /\ IsPartOf(extractText(TopBlocks[i]), walk.Sections[k])) =>
                  \E i2 \in 1..Len(TopBlocks) :
                      /\ TopBlocks[i2] = TopBlocks[i]
                      /\ HeadingBefore(i2) > 0
                      /\ IsKeyOf(k, HeadingBefore(i2))
        /\ \A i \in 1..Len(TopBlocks) :
              (/\ IsOwnParagraph(i)
               /\ HeadingBefore(i) > 0
               /\ extractText(TopBlocks[i]) # walk.Description) =>
                  \E k \in DOMAIN walk.Sections : IsKeyOf(k, HeadingBefore(i))

\* the text of the first level-1 heading of the document, "" without one
FirstTitleHeading ==
    LET H == {j \in 1..Len(TopBlocks) : TopBlocks[j].kind = "Heading" /\ TopBlocks[j].Level = 1}
    IN  IF H = {} THEN ""
        ELSE extractText(TopBlocks[CHOOSE j \in H : \A h \in H : j <= h])

\* C25: the title is the text of the first level-1 heading in document
\* order, no later heading overwrites it, and a document without a level-1
\* heading ends with the empty title.
C25_TitleIsFirstLevelOneHeading ==
    (pc = "walk" /\ walk.done) => walk.Title = FirstTitleHeading

\* C24: the description is assigned at most once, by the first paragraph
\* after the title heading; every other paragraph leaves it alone and is
\* appended with a blank line to the buffer of the current section, and the
\* buffer is stored under the name of that section when the next heading
\* starts.
C24_DescriptionAssignedOnce ==
    [][/\ Entering("Paragraph") =>
            IF walk.currentSection = "_title" /\ walk.descWrites = 0
            THEN walk'.Description = extractText(walk.todo[1])
            ELSE /\ walk'.Description = walk.Description
                 /\ walk'.sectionContent =
                        walk.sectionContent \o extractText(walk.todo[1]) \o "\n\n"
       /\ (Entering("Heading") /\ walk.sectionContent # "") =>
            /\ Has(walk'.Sections, walk.currentSection)
            /\ walk'.Sections[walk.currentSection] = TrimSpace(walk.sectionContent)]_vars

Writing(t) == threads[t].pc = "writing"
Reading(t) == threads[t].pc = "reading"

RegistryExclusion ==
    \A a, b \in DOMAIN threads :
        (a # b /\ Writing(a)) => ~Writing(b) /\ ~Reading(b)

AllReturned == \A t \in DOMAIN threads : threads[t].pc = "done"

\* C22: under every interleaving of Register, Get, List, All and
\* ParseFormats on one registry, a goroutine writing the map is alone with
\* it (no other writer, no reader), every lock taken is released when the
\* calls have returned, and every call returns.
C22_RegistryIsSafeAndLive ==
    /\ [](pc = "registry" => RegistryExclusion)
    /\ []((pc = "registry" /\ AllReturned) => mu = NoLock)
    /\ <>(pc = "registry" => AllReturned)

\* a Register and a ParseFormats that ran side by side have both returned,
\* the name is registered and the lock is free
C22_Witness ==
    /\ pc = "registry"
    /\ Len(threads) = 2
    /\ threads[1].op = "Register"
    /\ threads[2].op = "ParseFormats"
    /\ threads[2].ret.names = <<"vctm", "mddl">>
    /\ AllReturned
    /\ generators = {"mddl", "vctm"}
    /\ mu = NoLock

\* C28: when ParseFormats fails with "unknown format: X (available: L)",
\* X is not in L, whatever Register calls run beside it.
C28_UnknownFormatIsNotListed ==
    pc = "registry" =>
        \A t \in DOMAIN threads :
            (/\ threads[t].op = "ParseFormats"
             /\ threads[t].pc = "done"
             /\ HasPrefix(threads[t].ret.err, "unknown format: ")) =>
                ~Contains(threads[t].ret.available, threads[t].name)

\* the formats runGenerate was asked for, and those whose generator fails
Requested == {formatNames[i] : i \in 1..Len(formatNames)}
FailingFormats == {n \in Requested : GeneratorGenerate(n, cred, config).err # ""}
AfterParsing == pc \in {"parsed", "write", "returned"} /\ fromContent

\* C29: runGenerate writes a file only after every requested format was
\* generated; when the generation of a format fails no file of any format
\* is written; and when it returns nil exactly one file is written for
\* every resolved format name, each at a path of its own.
C29_WritesAllOrNothing ==
    AfterParsing =>
        /\ written # {} => (FailingFormats = {} /\ outputs.err = ""
                            /\ DOMAIN outputs.results = Requested)
        /\ FailingFormats # {} => written = {}
        /\ batchRet = "ok" =>
              /\ {w[1] : w \in written} = Requested
              /\ Cardinality(written) = Cardinality(Requested)
              /\ Cardinality({w[2] : w \in written}) = Cardinality(Requested)

\* runGenerate returned nil after writing the files of w3c and mddl
C29_Witness ==
    /\ pc = "returned"
    /\ batchRet = "ok"
    /\ config.OutputFile = "out/pid.json"
    /\ formatNames = <<"w3c", "mddl">>
    /\ written = {<<"w3c", "creds/pid.vc.json">>, <<"mddl", "creds/pid.mdoc.json">>}
====
